---- MODULE Spec2Model ----
(***************************************************************************)
(* Request lifecycle of the WaveQ API: the gateway (api_gateway.py), its   *)
(* durable request table (crud.py, models.py), its memory/Redis cache,     *)
(* the MQTT status listener, and the audio worker (mcp_audio_server.py).   *)
(***************************************************************************)
EXTENDS Integers, Sequences, FiniteSets, TLC

\* ------------------------------------------------------------------------
\* Bounds of the model
\* ------------------------------------------------------------------------
MaxRequests == 2    \* request ids the gateway may create (uuid4 values)
MaxExternal == 1    \* messages published by MQTT clients outside the gateway
MaxUpdates  == 2    \* direct calls of the store's update functions
MaxPhrases  == 2    \* phrases a request text is composed of
MaxChain    == 3    \* candidates handed to generate_operation_chain
MaxCalls    == 2    \* calls of the agent's process-natural endpoint
MaxClock    == 1    \* seconds the agent's clock advances
MaxWorkflows == 2   \* calls of enqueue_workflow
MaxSteps    == 2    \* steps of a flow file
MaxOperations == 3  \* operations handed to process_operations
MaxConnects == 2    \* calls of MCPClient.connect
MaxMalformed == 1   \* malformed status messages published
MaxJobs     == 2    \* jobs published to the worker when it is checked alone

\* ------------------------------------------------------------------------
\* Values
\* ------------------------------------------------------------------------
None        == "None"                 \* Python None / SQL NULL
RequestIds  == 1..MaxRequests         \* ids handed out by uuid.uuid4()
GhostId     == MaxRequests + 1        \* an id no create_request ever stored
NoRequestId == 0                      \* payload without (or with falsy) request_id
EventIds    == RequestIds \cup {GhostId}

Terminal    == {"completed", "failed", "cancelled"}

\* models.APIRequest columns that the callers of update_request_status name
Columns == {"status", "file_path", "payload", "client_id", "progress", "result"}

\* json.dumps of the structured values the model uses (editJob: the job
\* payload of a trim, otherJob: the job payload of any other operation name)
JsonText == [resA     |-> "{resA}",
             resB     |-> "{resB}",
             llmData  |-> "{llmData}",
             llmError |-> "{error:detail}",
             editJob  |-> "{editJob}",
             otherJob |-> "{otherJob}",
             chatBody |-> "{chatBody}"]

dump(value) == IF value = None THEN None ELSE JsonText[value]

\* dict.get(key, default)
PayloadGet(p, k, default) == IF k \in DOMAIN p THEN p[k] ELSE default

\* ------------------------------------------------------------------------
\* State
\* ------------------------------------------------------------------------
VARIABLES
    db,               \* api_requests table: request_id -> row
    nextId,           \* next uuid4 the gateway draws
    files,            \* uploaded files present under UPLOAD_DIR (by request id)
    redis_enabled,    \* redis_client is not None
    active_requests,  \* api_gateway.active_requests: id -> dict
    redis_store,      \* Redis keys request:<id> -> decoded dict
    statusFeed,       \* messages queued for the gateway's listen_status_updates
    workerFeed,       \* messages queued for the worker's handle_mqtt_messages
    processing_queue, \* AudioProcessingMCP.processing_queue
    worker,           \* position of process_single_request ("down": server not started)
    llmPending,       \* llm_chat calls suspended in parse_request
    updaters,         \* concurrent callers of update_request_status / update_request
    published,        \* ids whose job the gateway published on audio/edit
    budget,           \* remaining external publishes and direct update calls
    response,         \* last response the gateway (or store function) returned
    user_message,     \* the text handed to the agent (request.message)
    parsed,           \* what the last call of parse_natural_language gave
    operations,       \* the candidates handed to generate_operation_chain
    operation_chain,  \* what the last call of generate_operation_chain gave
    agent_requests,   \* audio_agent_api.active_requests: request_id -> record
    conversation_history, \* GeminiAudioIntegration.conversation_history
    now,              \* datetime.now() of the agent, in seconds
    workflows,        \* WorkflowOrchestrator.workflows: name -> steps
    rq_jobs,          \* the jobs of the RQ queue audio_workflows, in enqueue order
    flow,             \* the flow file and supported_ops handed to parse_flow
    actions,          \* what the last call of parse_flow gave
    mcp_client,       \* api_gateway.mcp_client: connected, status_task, live tasks
    pipeline          \* process_operations: the operations handed in, the outcome

vars == <<db, nextId, files, redis_enabled, active_requests, redis_store,
          statusFeed, workerFeed, processing_queue, worker, llmPending,
          updaters, published, budget, response, user_message, parsed,
          operations, operation_chain, agent_requests, conversation_history, now,
          workflows, rq_jobs, flow, actions, mcp_client, pipeline>>

gatewayVars == <<db, nextId, files, llmPending, published>>
cacheVars   == <<active_requests, redis_store>>
mqttVars    == <<statusFeed, workerFeed>>
workerVars  == <<processing_queue, worker>>
agentVars   == <<user_message, parsed, operations, operation_chain,
                 agent_requests, conversation_history, now>>

orchVars    == <<workflows, rq_jobs, flow, actions>>
serviceVars == <<mcp_client, pipeline>>

\* ------------------------------------------------------------------------
\* crud.py
\* ------------------------------------------------------------------------
\* create_request: a new row; progress and result start NULL
create_request(d, request_id, status, file_path, payload, client_id) ==
    [j \in DOMAIN d \cup {request_id} |->
        IF j = request_id
        THEN [status    |-> status,
              file_path |-> file_path,
              payload   |-> dump(payload),
              client_id |-> client_id,
              progress  |-> None,
              result    |-> None]
        ELSE d[j]]

\* get_request / the select at the head of update_request_status
db_get_request(d, request_id) ==
    IF request_id \in DOMAIN d THEN d[request_id] ELSE None

\* the value the loop of update_request_status assigns to column key
AssignedValue(key, fields) ==
    IF key \in {"payload", "result"} THEN dump(fields[key]) ELSE fields[key]

\* the loop's skip test: value is None or not hasattr(req, key)
Assigns(key, fields) ==
    key \in DOMAIN fields /\ fields[key] # None /\ key \in Columns

\* commit_changes with progress treated as an increment (req.progress += value)
commit_changes_accumulate(d, request_id, loaded, fields) ==
    [d EXCEPT ![request_id] =
        [key \in DOMAIN loaded |->
            IF Assigns(key, fields) /\ key = "progress" /\ loaded[key] # None
            THEN "1.0"
            ELSE IF Assigns(key, fields) /\ AssignedValue(key, fields) # loaded[key]
            THEN AssignedValue(key, fields)
            ELSE @[key]]]

\* setattr loop and commit of a session that loaded the row as `loaded`:
\* the unit of work updates the columns whose value differs from the loaded one
commit_changes(d, request_id, loaded, fields) ==
    [d EXCEPT ![request_id] =
        [key \in DOMAIN loaded |->
            IF Assigns(key, fields) /\ AssignedValue(key, fields) # loaded[key]
            THEN AssignedValue(key, fields)
            ELSE @[key]]]

update_request_status(d, request_id, fields) ==
    IF request_id \notin DOMAIN d
    THEN d
    ELSE commit_changes(d, request_id, d[request_id], fields)

\* ------------------------------------------------------------------------
\* MQTT: topics are sequences of levels, the broker routes by subscription
\* ------------------------------------------------------------------------
EditTopic        == <<"audio", "edit">>            \* api_gateway.py:248
StatusTopic(id)  == <<"audio", "status", ToString(id)>>
ResultTopic(id)  == <<"audio", "results", ToString(id)>>
RequestTopic(id) == <<"audio", "requests", ToString(id)>>

GatewaySubscriptions == {<<"audio", "status", "#">>}
WorkerSubscriptions  == {<<"audio", "requests", "#">>, <<"audio", "status", "#">>}

\* MQTT topic filter with a trailing multi-level wildcard
TopicMatches(filter, topic) ==
    LET n == Len(filter) IN
    IF filter[n] = "#"
    THEN /\ Len(topic) >= n - 1
         /\ \A k \in 1..(n - 1) : topic[k] = filter[k]
    ELSE /\ Len(topic) = n
         /\ \A k \in 1..n : topic[k] = filter[k]

\* topic.startswith("audio/<kind>/")
StartsWith(topic, kind) ==
    Len(topic) >= 3 /\ topic[1] = "audio" /\ topic[2] = kind

Deliver(feed, msg, subscriptions) ==
    IF \E f \in subscriptions : TopicMatches(f, msg.topic)
    THEN Append(feed, msg)
    ELSE feed

\* client.publish(topic, json.dumps(payload)) through the broker
\* (a client that is not connected holds no subscription)
Publish(msg) ==
    /\ statusFeed' = Deliver(statusFeed, msg, GatewaySubscriptions)
    /\ workerFeed' = IF worker.pc = "down"
                     THEN workerFeed
                     ELSE Deliver(workerFeed, msg, WorkerSubscriptions)

\* ------------------------------------------------------------------------
\* api_gateway.py: handlers
\* ------------------------------------------------------------------------
\* keys of the dict get_supported_operations returns
get_supported_operations ==
    {"trim", "normalize", "fade_in", "fade_out", "change_speed", "change_pitch",
     "time_stretch_torch", "add_reverb", "noise_reduction", "equalize",
     "compress", "voice_activity_detection", "merge", "split", "convert_format"}

UploadPath(id) == "uploads/" \o ToString(id)

\* the reply of a handler: which endpoint, which HTTP status
Reply(op, code) == [op |-> op, code |-> code]

\* POST /api/audio/edit; published = publish_request returned True
submit_audio_edit(operation, goodJson, publishOk) ==
    /\ nextId <= MaxRequests
    /\ IF ~goodJson \/ operation \notin get_supported_operations
       THEN /\ response' = Reply("submit", 400)
            /\ UNCHANGED <<db, nextId, files, published, mqttVars>>
       ELSE LET request_id == nextId
                payload == [request_id |-> request_id,
                            operations |-> <<operation>>,
                            audio_path |-> UploadPath(request_id)]
            IN /\ nextId' = nextId + 1
               /\ files' = files \cup {request_id}
               /\ db' = create_request(db, request_id, "submitted",
                                       UploadPath(request_id), "editJob", None)
               /\ IF publishOk
                  THEN /\ Publish([topic |-> EditTopic, payload |-> payload])
                       /\ published' = published \cup {request_id}
                       /\ response' = Reply("submit", 200)
                  ELSE /\ UNCHANGED <<mqttVars, published>>
                       /\ response' = Reply("submit", 500)
    /\ UNCHANGED <<llmPending, redis_enabled, agentVars, orchVars, serviceVars, cacheVars, workerVars, updaters, budget>>

\* what llm_service.parse_request may hand to chat_audio: it raises, it
\* reports a failure, or it returns the JSON object the LLM wrote
LlmResults ==
    {[raises |-> TRUE],
     [raises |-> FALSE, success |-> FALSE],
     [raises |-> FALSE, success |-> TRUE, data |-> [operation |-> None]],
     [raises |-> FALSE, success |-> TRUE, data |-> [operation |-> "trim"]],
     [raises |-> FALSE, success |-> TRUE, data |-> [operation |-> "frobnicate"]]}

\* POST /api/chat/audio; result = what llm_parse_request(message) gave
chat_audio(result, publishOk) ==
    /\ nextId <= MaxRequests
    /\ IF result.raises
       THEN /\ response' = Reply("chat_audio", 503)
            /\ UNCHANGED <<db, nextId, files, published, mqttVars>>
       ELSE IF ~result.success \/ result.data.operation = None
       THEN /\ response' = Reply("chat_audio", 502)
            /\ UNCHANGED <<db, nextId, files, published, mqttVars>>
       ELSE LET request_id == nextId
                payload == [request_id |-> request_id,
                            audio_path |-> UploadPath(request_id),
                            operations |-> <<result.data.operation>>]
            IN /\ nextId' = nextId + 1
               /\ files' = files \cup {request_id}
               /\ db' = create_request(db, request_id, "submitted",
                                       UploadPath(request_id),
                                       IF result.data.operation = "trim"
                                       THEN "editJob" ELSE "otherJob", None)
               /\ IF publishOk
                  THEN /\ Publish([topic |-> EditTopic, payload |-> payload])
                       /\ published' = published \cup {request_id}
                       /\ response' = Reply("chat_audio", 200)
                  ELSE /\ UNCHANGED <<mqttVars, published>>
                       /\ response' = Reply("chat_audio", 500)
    /\ UNCHANGED <<llmPending, redis_enabled, agentVars, orchVars, serviceVars, cacheVars, workerVars, updaters, budget>>

\* POST /api/llm/chat up to the await of parse_request
llm_chat_begin ==
    /\ nextId <= MaxRequests
    /\ nextId' = nextId + 1
    /\ db' = create_request(db, nextId, "submitted", None, "chatBody", None)
    /\ llmPending' = llmPending \cup {nextId}
    /\ UNCHANGED <<files, published, redis_enabled, agentVars, orchVars, serviceVars, cacheVars, mqttVars,
                   workerVars, updaters, budget, response>>

\* llm_chat whose except branches re-raise without writing the failure
llm_chat_end_reraise(request_id, code) ==
    /\ request_id \in llmPending
    /\ llmPending' = llmPending \ {request_id}
    /\ db' = IF code = 200
             THEN update_request_status(db, request_id,
                      [status |-> "completed", result |-> "llmData"])
             ELSE db
    /\ response' = Reply("llm_chat", code)
    /\ UNCHANGED <<nextId, files, published, redis_enabled, agentVars, orchVars, serviceVars, cacheVars, mqttVars,
                   workerVars, updaters, budget>>

\* the codes llm_chat answers with: 200, or the HTTPException of parse_request
\* (400 no message, 503 LLM raised, 502 malformed reply), or 500
ChatCodes == {200, 400, 502, 503, 500}

\* POST /api/llm/chat after parse_request returned or raised
llm_chat_end(request_id, code) ==
    /\ request_id \in llmPending
    /\ llmPending' = llmPending \ {request_id}
    /\ db' = IF code = 200
             THEN update_request_status(db, request_id,
                      [status |-> "completed", result |-> "llmData"])
             ELSE update_request_status(db, request_id,
                      [status |-> "failed", result |-> "llmError"])
    /\ response' = Reply("llm_chat", code)
    /\ UNCHANGED <<nextId, files, published, redis_enabled, agentVars, orchVars, serviceVars, cacheVars, mqttVars,
                   workerVars, updaters, budget>>

\* cancel_request whose terminal list lacks "failed"
cancel_request_retry_failed(request_id) ==
    LET request_obj == db_get_request(db, request_id) IN
    /\ IF request_id \notin DOMAIN db
       THEN /\ response' = Reply("cancel", 404)
            /\ UNCHANGED <<db, files>>
       ELSE IF request_obj.status \in {"completed", "cancelled"}
       THEN /\ response' = Reply("cancel", 400)
            /\ UNCHANGED <<db, files>>
       ELSE /\ db' = update_request_status(db, request_id, [status |-> "cancelled"])
            /\ files' = IF request_obj.file_path # None
                        THEN files \ {request_id} ELSE files
            /\ response' = Reply("cancel", 200)
    /\ UNCHANGED <<nextId, llmPending, published, redis_enabled, agentVars, orchVars, serviceVars, cacheVars,
                   mqttVars, workerVars, updaters, budget>>

\* cancel_request deciding on a status read before the events arrived (the
\* row as create_request wrote it) and writing afterwards
cancel_request_stale_read(request_id) ==
    LET request_obj == db_get_request(db, request_id) IN
    /\ IF request_id \notin DOMAIN db
       THEN /\ response' = Reply("cancel", 404)
            /\ UNCHANGED <<db, files>>
       ELSE /\ db' = update_request_status(db, request_id, [status |-> "cancelled"])
            /\ files' = IF request_obj.file_path # None
                        THEN files \ {request_id} ELSE files
            /\ response' = Reply("cancel", 200)
    /\ UNCHANGED <<nextId, llmPending, published, redis_enabled, agentVars, orchVars, serviceVars, cacheVars,
                   mqttVars, workerVars, updaters, budget>>

\* DELETE /api/audio/requests/{request_id}
cancel_request(request_id) ==
    LET request_obj == db_get_request(db, request_id) IN
    /\ IF request_id \notin DOMAIN db
       THEN /\ response' = Reply("cancel", 404)
            /\ UNCHANGED <<db, files>>
       ELSE IF request_obj.status \in {"completed", "failed", "cancelled"}
       THEN /\ response' = Reply("cancel", 400)
            /\ UNCHANGED <<db, files>>
       ELSE /\ db' = update_request_status(db, request_id, [status |-> "cancelled"])
            /\ files' = IF request_obj.file_path # None
                        THEN files \ {request_id} ELSE files
            /\ response' = Reply("cancel", 200)
    /\ UNCHANGED <<nextId, llmPending, published, redis_enabled, agentVars, orchVars, serviceVars, cacheVars,
                   mqttVars, workerVars, updaters, budget>>

\* MCPClient as __init__ leaves it: not connected, no status_task; tasks are
\* the listen_status_updates tasks that run, connecting the calls of connect
\* suspended in `await self.client.connect()`, created the tasks made so far,
\* errors the "Error processing status message" lines logged
NewClient ==
    [connected |-> FALSE, status_task |-> 0, tasks |-> {}, connecting |-> 0, created |-> 0,
     errors |-> 0]

\* the client after the connect of startup_event succeeded
StartedClient ==
    [connected |-> TRUE, status_task |-> 1, tasks |-> {1}, connecting |-> 0, created |-> 1,
     errors |-> 0]

\* a caller that found `not self.connected` (startup_event, publish_request,
\* subscribe_to_status, monitor_mcp_status) enters connect and suspends in
\* `await self.client.connect()`
connect_begin ==
    /\ ~mcp_client.connected
    /\ mcp_client.created + mcp_client.connecting < MaxConnects
    /\ mcp_client' = [mcp_client EXCEPT !.connecting = @ + 1]
    /\ UNCHANGED <<gatewayVars, redis_enabled, agentVars, orchVars, cacheVars, mqttVars,
                   workerVars, updaters, budget, response, pipeline>>

\* connect resumes: the connect or the subscribe raised (except branch), or
\* connected is set and a listener task is created and stored in status_task
connect_end(connectOk, subscribeOk) ==
    /\ mcp_client.connecting > 0
    /\ mcp_client' =
          IF connectOk /\ subscribeOk
          THEN [connected   |-> TRUE,
                status_task |-> mcp_client.created + 1,
                tasks       |-> mcp_client.tasks \cup {mcp_client.created + 1},
                connecting  |-> mcp_client.connecting - 1,
                created     |-> mcp_client.created + 1,
                errors      |-> mcp_client.errors]
          ELSE [mcp_client EXCEPT !.connected = FALSE, !.connecting = @ - 1]
    /\ UNCHANGED <<gatewayVars, redis_enabled, agentVars, orchVars, cacheVars, mqttVars,
                   workerVars, updaters, budget, response, pipeline>>

\* the loop of listen_status_updates ends: the message stream finished or
\* raised (logged at line 289); the task returns and nothing else is touched
listen_loop_ends(task) ==
    /\ task \in mcp_client.tasks
    /\ mcp_client' = [mcp_client EXCEPT !.tasks = @ \ {task}]
    /\ UNCHANGED <<gatewayVars, redis_enabled, agentVars, orchVars, cacheVars, mqttVars,
                   workerVars, updaters, budget, response, pipeline>>

\* MCPClient.disconnect (shutdown_event)
disconnect ==
    /\ mcp_client.created + mcp_client.connecting > 0      \* self.client is set
    /\ mcp_client.connected
    /\ mcp_client' = [mcp_client EXCEPT !.tasks = @ \ {mcp_client.status_task},
                                        !.connected = FALSE]
    /\ UNCHANGED <<gatewayVars, redis_enabled, agentVars, orchVars, cacheVars, mqttVars,
                   workerVars, updaters, budget, response, pipeline>>

\* message bodies that are no JSON text and JSON texts that are no object
InvalidJson == {"{request_id: 1"}
NonObjectJson == {"[1, 2]"}

\* json.loads(message.payload.decode()): a body the model holds as a dict is
\* the text json.dumps made of it; a raw body decodes to no dict or raises
json_loads(body) ==
    IF "raw" \notin DOMAIN body THEN [raised |-> FALSE, object |-> TRUE, value |-> body]
    ELSE IF body.raw \in NonObjectJson THEN [raised |-> FALSE, object |-> FALSE]
    ELSE [raised |-> TRUE, error |-> "JSONDecodeError"]

\* the inner try of listen_status_updates raises for the message: json.loads
\* raised, or payload.get is called on a value that is no dict
StatusMessageRaises(message) ==
    /\ StartsWith(message.topic, "status")
    /\ json_loads(message.payload).raised \/ ~json_loads(message.payload).object

\* the body of the loop of MCPClient.listen_status_updates, lines 269-283:
\* the table after the listener handled `message`
apply_status_message(d, message) ==
    IF ~StartsWith(message.topic, "status") \/ StatusMessageRaises(message)
    THEN d
    ELSE LET payload == json_loads(message.payload).value
             req_id  == PayloadGet(payload, "request_id", NoRequestId)
         IN IF req_id # NoRequestId
            THEN update_request_status(d, req_id,
                     [status   |-> PayloadGet(payload, "status", "unknown"),
                      progress |-> PayloadGet(payload, "progress", None),
                      result   |-> PayloadGet(payload, "result", None)])
            ELSE d

\* listen_status_updates with json.loads outside the inner try: the error of
\* a malformed message reaches the outer except and the task ends
listen_status_updates_outer_except ==
    /\ mcp_client.tasks # {}
    /\ statusFeed # <<>>
    /\ statusFeed' = Tail(statusFeed)
    /\ db' = apply_status_message(db, Head(statusFeed))
    /\ mcp_client' = IF StatusMessageRaises(Head(statusFeed))
                     THEN [mcp_client EXCEPT !.tasks = {}]
                     ELSE mcp_client
    /\ UNCHANGED <<nextId, files, llmPending, published, redis_enabled, agentVars, orchVars,
                   pipeline, cacheVars, workerFeed, workerVars, updaters, budget, response>>

\* one iteration of the loop of MCPClient.listen_status_updates
listen_status_updates ==
    /\ mcp_client.tasks # {}
    /\ statusFeed # <<>>
    /\ statusFeed' = Tail(statusFeed)
    /\ db' = apply_status_message(db, Head(statusFeed))
    /\ mcp_client' = IF StatusMessageRaises(Head(statusFeed))
                     THEN [mcp_client EXCEPT !.errors = @ + 1]
                     ELSE mcp_client
    /\ UNCHANGED <<nextId, files, llmPending, published, redis_enabled, agentVars, orchVars,
                   pipeline, cacheVars, workerFeed, workerVars, updaters, budget, response>>

\* json.loads of a text column: the value whose json.dumps is the text
load(text) == CHOOSE value \in DOMAIN JsonText : JsonText[value] = text

\* GET /api/audio/status/{request_id}: reads the durable table only
get_processing_status(d, request_id) ==
    LET request_obj == db_get_request(d, request_id) IN
    IF request_id \notin DOMAIN d
    THEN [code |-> 404]
    ELSE [code     |-> 200,
          status   |-> request_obj.status,
          progress |-> request_obj.progress,
          result   |-> IF request_obj.result # None
                       THEN load(request_obj.result) ELSE None]

\* crud.list_requests: filter, newest first (ids are drawn in submission
\* order), at most `limit` rows
db_list_requests(d, client_id, status, limit) ==
    LET rows == {j \in DOMAIN d :
                    /\ (client_id # None => d[j].client_id = client_id)
                    /\ (status # None => d[j].status = status)}
        n    == IF Cardinality(rows) < limit THEN Cardinality(rows) ELSE limit
    IN [i \in 1..n |->
           CHOOSE j \in rows : Cardinality({m \in rows : m > j}) = i - 1]

\* GET /api/audio/requests: the rows of the durable table, as listed
list_requests(d, client_id, status, limit) ==
    LET requests == db_list_requests(d, client_id, status, limit) IN
    [i \in DOMAIN requests |->
        [request_id |-> requests[i],
         status     |-> d[requests[i]].status,
         client_id  |-> d[requests[i]].client_id,
         file_path  |-> d[requests[i]].file_path]]

\* GET /api/audio/download/{request_id}; processedExists = the glob of
\* <stem>_* beside the uploaded file is not empty. Path(None) of a row
\* without file_path raises TypeError, which the server answers with 500
download_processed_audio(d, request_id, processedExists) ==
    IF request_id \notin DOMAIN d
    THEN [code |-> 404]
    ELSE IF d[request_id].status # "completed"
    THEN [code |-> 400]
    ELSE IF d[request_id].file_path = None
    THEN [code |-> 500]
    ELSE IF ~processedExists
    THEN [code |-> 404]
    ELSE [code |-> 200]

\* a call of the download endpoint
call_download_processed_audio(request_id, processedExists) ==
    /\ response' = Reply("download",
                         download_processed_audio(db, request_id, processedExists).code)
    /\ UNCHANGED <<gatewayVars, redis_enabled, agentVars, orchVars, serviceVars, cacheVars, mqttVars,
                   workerVars, updaters, budget>>

\* ------------------------------------------------------------------------
\* api_gateway.py: memory / Redis cache
\* ------------------------------------------------------------------------
EmptyDict == [k \in {} |-> None]

\* get_request: Redis first when it holds the key, else the memory table
get_request(request_id) ==
    IF redis_enabled /\ request_id \in DOMAIN redis_store
    THEN redis_store[request_id]
    ELSE IF request_id \in DOMAIN active_requests
         THEN active_requests[request_id]
         ELSE EmptyDict              \* "or {}" of update_request

\* dict.update(fields)
DictUpdate(data, fields) ==
    [k \in DOMAIN data \cup DOMAIN fields |->
        IF k \in DOMAIN fields THEN fields[k] ELSE data[k]]

Put(table, key, value) ==
    [j \in DOMAIN table \cup {key} |-> IF j = key THEN value ELSE table[j]]

\* save_request: memory always, Redis when configured
save_request(request_id, data) ==
    /\ active_requests' = Put(active_requests, request_id, data)
    /\ redis_store' = IF redis_enabled
                      THEN Put(redis_store, request_id, data)
                      ELSE redis_store

\* ------------------------------------------------------------------------
\* Concurrent callers of the two update paths
\* ------------------------------------------------------------------------
Updaters == 1..MaxUpdates

Idle == [pc |-> "idle"]

\* the partial field sets the callers pass
FieldSets == {[progress |-> "0.5"], [result |-> "resA"], [status |-> "processing"],
              [status |-> "completed"]}

\* update_request_status, lines 34-37: the session loads the row
durable_update_begin(u, request_id, fields) ==
    /\ updaters[u] = Idle
    /\ IF request_id \notin DOMAIN db
       THEN /\ updaters' = [updaters EXCEPT ![u] =
                   [pc |-> "done", path |-> "durable", id |-> request_id,
                    fields |-> fields, found |-> FALSE]]
            /\ response' = Reply("update_request_status", 404)
       ELSE /\ updaters' = [updaters EXCEPT ![u] =
                   [pc |-> "loaded", path |-> "durable", id |-> request_id,
                    fields |-> fields, loaded |-> db[request_id]]]
            /\ UNCHANGED response
    /\ UNCHANGED <<gatewayVars, redis_enabled, agentVars, orchVars, serviceVars, cacheVars, mqttVars, workerVars, budget>>

\* update_request_status, lines 38-47: setattr loop, commit, refresh
durable_update_end(u) ==
    /\ updaters[u].pc = "loaded"
    /\ updaters[u].path = "durable"
    /\ db' = commit_changes(db, updaters[u].id, updaters[u].loaded, updaters[u].fields)
    /\ updaters' = [updaters EXCEPT ![u] =
            [pc |-> "done", path |-> "durable", id |-> @.id,
             fields |-> @.fields, found |-> TRUE]]
    /\ response' = Reply("update_request_status", 200)
    /\ UNCHANGED <<nextId, files, llmPending, published, redis_enabled, agentVars, orchVars, serviceVars, cacheVars,
                   mqttVars, workerVars, budget>>

\* some store holds a record of the id
InStore(request_id) ==
    request_id \in DOMAIN db \cup DOMAIN active_requests \cup DOMAIN redis_store

\* update_request without Redis: no await suspends, the call runs in one piece
update_request(u, request_id, fields) ==
    /\ ~redis_enabled
    /\ updaters[u] = Idle
    /\ save_request(request_id, DictUpdate(get_request(request_id), fields))
    /\ updaters' = [updaters EXCEPT ![u] =
            [pc |-> "done", path |-> "cache", id |-> request_id,
             fields |-> fields, found |-> InStore(request_id)]]
    /\ UNCHANGED <<gatewayVars, redis_enabled, agentVars, orchVars, serviceVars, mqttVars, workerVars, budget, response>>

\* update_request with Redis, line 320: await get_request
update_request_get(u, request_id, fields) ==
    /\ redis_enabled
    /\ updaters[u] = Idle
    /\ updaters' = [updaters EXCEPT ![u] =
            [pc |-> "loaded", path |-> "cache", id |-> request_id,
             fields |-> fields, loaded |-> get_request(request_id),
             found |-> InStore(request_id)]]
    /\ UNCHANGED <<gatewayVars, redis_enabled, agentVars, orchVars, serviceVars, cacheVars, mqttVars, workerVars,
                   budget, response>>

\* update_request with Redis, lines 321-322: data.update, await save_request
update_request_save(u) ==
    /\ updaters[u].pc = "loaded"
    /\ updaters[u].path = "cache"
    /\ save_request(updaters[u].id, DictUpdate(updaters[u].loaded, updaters[u].fields))
    /\ updaters' = [updaters EXCEPT ![u] =
            [pc |-> "done", path |-> "cache", id |-> @.id,
             fields |-> @.fields, found |-> @.found]]
    /\ UNCHANGED <<gatewayVars, redis_enabled, agentVars, orchVars, serviceVars, mqttVars, workerVars, budget, response>>

\* ------------------------------------------------------------------------
\* mcp_audio_server.py: the worker
\* ------------------------------------------------------------------------
\* keys of AudioProcessingMCP.supported_operations
supported_operations ==
    {"trim", "normalize", "fade_in", "fade_out", "change_speed", "change_pitch",
     "add_reverb", "noise_reduction", "equalize", "compress", "merge", "split",
     "convert_format", "process_operations"}

\* publish_status: the message of lines 210-217
StatusMessage(request_id, status) ==
    [topic   |-> StatusTopic(request_id),
     payload |-> [request_id |-> request_id, status |-> status, message |-> "text"]]

\* one iteration of the loop of handle_mqtt_messages
handle_mqtt_messages ==
    /\ workerFeed # <<>>
    /\ workerFeed' = Tail(workerFeed)
    /\ IF StartsWith(Head(workerFeed).topic, "requests")
          /\ ~json_loads(Head(workerFeed).payload).raised     \* else logged, line 116
       THEN processing_queue' = Append(processing_queue, Head(workerFeed))
       ELSE UNCHANGED processing_queue
    /\ UNCHANGED <<gatewayVars, redis_enabled, agentVars, orchVars, serviceVars, cacheVars, statusFeed, worker,
                   updaters, budget, response>>

\* process_single_request whose exception is not caught by the loop of
\* process_audio_requests: the task ends
process_single_request_escapes ==
    /\ worker.pc = "idle"
    /\ processing_queue # <<>>
    /\ LET payload    == Head(processing_queue).payload
           request_id == PayloadGet(payload, "request_id", GhostId)
       IN /\ processing_queue' = Tail(processing_queue)
          /\ IF ~json_loads(payload).object
             THEN /\ UNCHANGED mqttVars
                  /\ worker' = [pc |-> "stopped", results_cache |-> worker.results_cache]
             ELSE /\ Publish(StatusMessage(request_id, "processing"))
                  /\ worker' = [pc |-> "execute", request_id |-> request_id,
                                payload |-> payload, results_cache |-> worker.results_cache]
    /\ UNCHANGED <<gatewayVars, redis_enabled, agentVars, orchVars, serviceVars, cacheVars, updaters, budget, response>>

\* process_audio_requests / process_single_request up to the first publish:
\* dequeue, read the request id, publish "processing". A payload that is no
\* dict raises at payload.get and again in the except branch (line 158); the
\* loop of process_audio_requests logs that and takes the next request
process_single_request ==
    /\ worker.pc = "idle"
    /\ processing_queue # <<>>
    /\ LET payload    == Head(processing_queue).payload
           request_id == PayloadGet(payload, "request_id", GhostId)  \* else a fresh uuid4
       IN /\ processing_queue' = Tail(processing_queue)
          /\ IF ~json_loads(payload).object
             THEN UNCHANGED <<mqttVars, worker>>
             ELSE /\ Publish(StatusMessage(request_id, "processing"))
                  /\ worker' = [pc |-> "execute", request_id |-> request_id,
                                payload |-> payload, results_cache |-> worker.results_cache]
    /\ UNCHANGED <<gatewayVars, redis_enabled, agentVars, orchVars, serviceVars, cacheVars, updaters, budget, response>>

\* the publish of "processing" raises: the except branch publishes "error",
\* or that publish raises too and the loop of process_audio_requests logs it
publish_processing_raises(errorPublished) ==
    /\ worker.pc = "idle"
    /\ processing_queue # <<>>
    /\ json_loads(Head(processing_queue).payload).object
    /\ processing_queue' = Tail(processing_queue)
    /\ IF errorPublished
       THEN Publish(StatusMessage(PayloadGet(Head(processing_queue).payload,
                                             "request_id", GhostId), "error"))
       ELSE UNCHANGED mqttVars
    /\ UNCHANGED <<gatewayVars, redis_enabled, agentVars, orchVars, serviceVars, cacheVars,
                   worker, updaters, budget, response>>

\* the operation or the publish of "completed" raises and the publish of
\* "error" in the except branch raises as well: the loop logs it
error_status_raises ==
    /\ worker.pc = "execute"
    /\ worker' = [pc |-> "idle", results_cache |-> worker.results_cache]
    /\ UNCHANGED <<gatewayVars, redis_enabled, agentVars, orchVars, serviceVars, cacheVars,
                   mqttVars, processing_queue, updaters, budget, response>>

\* execute_audio_operation, then publish "completed", or the except branch
execute_audio_operation(executorOk) ==
    /\ worker.pc = "execute"
    /\ IF PayloadGet(worker.payload, "operation", None) \in supported_operations
          /\ executorOk
       THEN /\ Publish(StatusMessage(worker.request_id, "completed"))
            /\ worker' = [worker EXCEPT !.pc = "publish_result",
                              !.results_cache = @ \cup {worker.request_id}]
       ELSE /\ Publish(StatusMessage(worker.request_id, "error"))
            /\ worker' = [pc |-> "idle", results_cache |-> worker.results_cache]
    /\ UNCHANGED <<gatewayVars, redis_enabled, agentVars, orchVars, serviceVars, cacheVars, processing_queue,
                   updaters, budget, response>>

\* publish_result on audio/results/<id>
publish_result ==
    /\ worker.pc = "publish_result"
    /\ Publish([topic   |-> ResultTopic(worker.request_id),
                payload |-> [operation |-> worker.payload.operation]])
    /\ worker' = [pc |-> "idle", results_cache |-> worker.results_cache]
    /\ UNCHANGED <<gatewayVars, redis_enabled, agentVars, orchVars, serviceVars, cacheVars, processing_queue,
                   updaters, budget, response>>

\* publish_result raised (json.dumps on a result that is not serialisable,
\* or client.publish): the except branch of process_single_request runs
\* after "completed" went out and publishes the "error" status
publish_result_raises ==
    /\ worker.pc = "publish_result"
    /\ Publish(StatusMessage(worker.request_id, "error"))
    /\ worker' = [pc |-> "idle", results_cache |-> worker.results_cache]
    /\ UNCHANGED <<gatewayVars, redis_enabled, agentVars, orchVars, serviceVars, cacheVars, processing_queue,
                   updaters, budget, response>>

\* ------------------------------------------------------------------------
\* Other MQTT clients on the broker
\* ------------------------------------------------------------------------
\* a client publishes a job where the worker subscribes (audio/requests/#)
PublishJob(request_id, operation) ==
    /\ budget > 0
    /\ budget' = budget - 1
    /\ request_id \in DOMAIN db \cup {GhostId}
    /\ Publish([topic   |-> RequestTopic(request_id),
                payload |-> [request_id |-> request_id, operation |-> operation]])
    /\ UNCHANGED <<gatewayVars, redis_enabled, agentVars, orchVars, serviceVars, cacheVars, workerVars, updaters, response>>

\* the event payloads of the status channel apart from request_id
StatusEvents ==
    {[status |-> "processing", message |-> "text"],
     [status |-> "completed", message |-> "text"],
     [status |-> "error", message |-> "text"],
     [status |-> "completed", result |-> "resB"],
     [status |-> "failed"],
     [progress |-> "0.5"]}

\* a client publishes on audio/requests/<id> a body that is no JSON, or JSON
\* that is no object
PublishRawJob(request_id, raw) ==
    /\ budget > 0
    /\ budget' = budget - 1
    /\ request_id \in DOMAIN db \cup {GhostId}
    /\ Publish([topic |-> RequestTopic(request_id), payload |-> [raw |-> raw]])
    /\ UNCHANGED <<gatewayVars, redis_enabled, agentVars, orchVars, serviceVars, cacheVars,
                   workerVars, updaters, response>>

\* a client publishes a status event on audio/status/<id>
PublishStatus(request_id, event) ==
    /\ budget > 0
    /\ budget' = budget - 1
    /\ request_id \in DOMAIN db \cup {GhostId}
    /\ Publish([topic   |-> StatusTopic(request_id),
                payload |-> DictUpdate(event, [request_id |-> request_id])])
    /\ UNCHANGED <<gatewayVars, redis_enabled, agentVars, orchVars, serviceVars, cacheVars, workerVars, updaters, response>>

\* the bodies a client may publish that the listener has to discard: no JSON,
\* JSON that is no object, an object without request_id
MalformedBodies ==
    {[raw |-> body] : body \in InvalidJson \cup NonObjectJson} \cup {[status |-> "completed"]}

Malformed(message) ==
    \/ StatusMessageRaises(message)
    \/ PayloadGet(message.payload, "request_id", NoRequestId) = NoRequestId

\* a client publishes a malformed body on audio/status/<id>
PublishRaw(request_id, body) ==
    /\ mcp_client.errors
          + Cardinality({i \in DOMAIN statusFeed : Malformed(statusFeed[i])}) < MaxMalformed
    /\ request_id \in DOMAIN db \cup {GhostId}
    /\ Publish([topic |-> StatusTopic(request_id), payload |-> body])
    /\ UNCHANGED <<gatewayVars, redis_enabled, agentVars, orchVars, serviceVars, cacheVars,
                   workerVars, updaters, budget, response>>

\* orchestrator.py _dispatch_step: the status heartbeat on the callback topic
\* audio/status/<step_id>; step ids are uuids of their own
dispatch_step_status ==
    /\ budget > 0
    /\ budget' = budget - 1
    /\ Publish([topic   |-> StatusTopic(GhostId),
                payload |-> [status |-> "dispatched"]])
    /\ UNCHANGED <<gatewayVars, redis_enabled, agentVars, orchVars, serviceVars, cacheVars, workerVars, updaters, response>>

\* ------------------------------------------------------------------------
\* audio_agent_library.py: texts, regular expressions, floats
\* ------------------------------------------------------------------------
\* the element of a one-element set: binds the value of an expression once
The(S) == CHOOSE x \in S : TRUE

\* str.lower
UpperCase == <<"A", "B", "C", "D", "E", "F", "G", "H", "I", "J", "K", "L", "M",
               "N", "O", "P", "Q", "R", "S", "T", "U", "V", "W", "X", "Y", "Z">>
LowerCase == <<"a", "b", "c", "d", "e", "f", "g", "h", "i", "j", "k", "l", "m",
               "n", "o", "p", "q", "r", "s", "t", "u", "v", "w", "x", "y", "z">>

LowerChar(c) ==
    IF \E i \in DOMAIN UpperCase : UpperCase[i] = c
    THEN LowerCase[CHOOSE i \in DOMAIN UpperCase : UpperCase[i] = c]
    ELSE c

RECURSIVE Join(_, _)
Join(chars, i) == IF i > Len(chars) THEN "" ELSE chars[i] \o Join(chars, i + 1)

lower(text) ==
    The({Join(chars, 1) :
            chars \in {[i \in 1..Len(text) |-> LowerChar(SubSeq(text, i, i))]}})

\* str.strip: leading and trailing whitespace removed
strip(text) ==
    The({IF inked = {} THEN ""
         ELSE SubSeq(text, CHOOSE i \in inked : \A j \in inked : i <= j,
                           CHOOSE i \in inked : \A j \in inked : i >= j) :
            inked \in {{i \in 1..Len(text) : SubSeq(text, i, i) # " "}}})

\* text[i:].startswith(pat)
StartsAt(text, i, pat) ==
    i + Len(pat) - 1 <= Len(text) /\ SubSeq(text, i, i + Len(pat) - 1) = pat

\* `pat in text`
Contains(text, pat) == \E i \in 1..(Len(text) + 1) : StartsAt(text, i, pat)

DigitChars == <<"0", "1", "2", "3", "4", "5", "6", "7", "8", "9">>

IsDigit(text, i) ==
    i <= Len(text) /\ \E d \in DOMAIN DigitChars : DigitChars[d] = SubSeq(text, i, i)

DigitValue(c) == (CHOOSE d \in DOMAIN DigitChars : DigitChars[d] = c) - 1

\* \d* from position i: the position after the run of digits (i when none)
DigitsEnd(text, i) ==
    CHOOSE j \in i..(Len(text) + 1) :
        (\A m \in i..(j - 1) : IsDigit(text, m)) /\ ~IsDigit(text, j)

\* \s* from position i: the position after the run of blanks
SpacesEnd(text, i) ==
    CHOOSE j \in i..(Len(text) + 1) :
        /\ \A m \in i..(j - 1) : SubSeq(text, m, m) = " "
        /\ ~(j <= Len(text) /\ SubSeq(text, j, j) = " ")

\* the end of the digits and optional decimal part that start at `first`
\* (`first` itself when no digit stands there)
DecimalEnd(text, first, intEnd, decimal) ==
    IF intEnd > first /\ decimal /\ StartsAt(text, intEnd, ".")
       /\ IsDigit(text, intEnd + 1)
    THEN DigitsEnd(text, intEnd + 1)
    ELSE intEnd

\* (-?\d+(?:\.\d+)?) from position i, greedy, the sign and the decimal part
\* allowed or not: the position after the number (i when there is none)
NumberEnd(text, i, signed, decimal) ==
    The({The({IF intEnd = first THEN i
              ELSE DecimalEnd(text, first, intEnd, decimal) :
                 intEnd \in {DigitsEnd(text, first)}}) :
            first \in {IF signed /\ StartsAt(text, i, "-") THEN i + 1 ELSE i}})

NoMatch == [found |-> FALSE]

\* the match whose number spans i..e-1 and whose unit would start at u: only
\* the greedy number can be followed by blanks and a unit, so no shorter
\* number is tried
MatchUnit(text, i, e, u, units) ==
    IF e > i /\ \E k \in DOMAIN units : StartsAt(text, u, units[k])
    THEN [found |-> TRUE,
          group |-> SubSeq(text, i, e - 1),
          end   |-> u + Len(units[CHOOSE k \in DOMAIN units :
                                     /\ StartsAt(text, u, units[k])
                                     /\ \A j \in 1..(k - 1) :
                                           ~StartsAt(text, u, units[j])])]
    ELSE NoMatch

\* a match of  number \s* unit  that starts at position i, or NoMatch
MatchAt(text, i, units, signed, decimal) ==
    The({The({MatchUnit(text, i, e, u, units) : u \in {SpacesEnd(text, e)}}) :
            e \in {NumberEnd(text, i, signed, decimal)}})

\* re.search(pattern, text) from position `from` on: the leftmost match
SearchFrom(text, from, units, signed, decimal) ==
    The({IF starts = {} THEN NoMatch
         ELSE MatchAt(text, CHOOSE i \in starts : \A j \in starts : i <= j,
                      units, signed, decimal) :
            starts \in {{i \in from..Len(text) :
                            MatchAt(text, i, units, signed, decimal).found}}})

\* re.findall(pattern, text): group(1) of the matches, left to right
RECURSIVE FindAllFrom(_, _, _, _, _)
FindAllFrom(text, i, units, signed, decimal) ==
    The({IF ~m.found THEN <<>>
         ELSE <<m.group>> \o FindAllFrom(text, m.end, units, signed, decimal) :
            m \in {SearchFrom(text, i, units, signed, decimal)}})

\* AudioAgent.patterns: the unit alternatives in the order the pattern lists them
TimeUnits     == <<"seconds", "second", "secs", "sec", "minutes", "minute",
                   "mins", "min", "hours", "hour", "hrs", "hr">>
DbUnits       == <<"dB">>
RatioUnits    == <<"x">>
SemitoneUnits == <<"semitones", "semitone">>

\* re.search / re.findall with one of the patterns
re_search(units, signed, decimal, text) == SearchFrom(text, 1, units, signed, decimal)
re_findall(units, signed, decimal, text) == FindAllFrom(text, 1, units, signed, decimal)

\* the pattern "format": (wav|mp3|flac|aac|ogg), leftmost match
FormatNames == <<"wav", "mp3", "flac", "aac", "ogg">>

\* the leftmost place where one of the words stands, the first such word
SearchWord(text, words) ==
    The({IF hits = {} THEN NoMatch
         ELSE The({[found |-> TRUE, group |-> words[h[2]]] :
                     h \in {CHOOSE h \in hits :
                               \A g \in hits : h[1] < g[1]
                                               \/ (h[1] = g[1] /\ h[2] <= g[2])}}) :
            hits \in {{h \in (1..Len(text)) \X DOMAIN words :
                          StartsAt(text, h[1], words[h[2]])}}})

\* the pattern "quality": (low|medium|high)\s*quality, leftmost match
QualityNames == <<"low", "medium", "high">>

SearchQuality(text) ==
    The({IF hits = {} THEN NoMatch
         ELSE The({[found |-> TRUE, group |-> QualityNames[h[2]]] :
                     h \in {CHOOSE h \in hits :
                               \A g \in hits : h[1] < g[1]
                                               \/ (h[1] = g[1] /\ h[2] <= g[2])}}) :
            hits \in {{h \in (1..Len(text)) \X DOMAIN QualityNames :
                          /\ StartsAt(text, h[1], QualityNames[h[2]])
                          /\ StartsAt(text,
                                 SpacesEnd(text, h[1] + Len(QualityNames[h[2]])),
                                 "quality")}}})

\* floats are exact fractions num/den in lowest terms, den > 0
RECURSIVE Gcd(_, _)
Gcd(a, b) == IF b = 0 THEN a ELSE Gcd(b, a % b)

Abs(a) == IF a < 0 THEN -a ELSE a

Float(num, den) ==
    The({IF num = 0 THEN [num |-> 0, den |-> 1]
         ELSE [num |-> num \div g, den |-> den \div g] :
            g \in {Gcd(Abs(num), den)}})

\* int(digits)
RECURSIVE int(_)
int(digits) ==
    IF digits = "" THEN 0
    ELSE 10 * int(SubSeq(digits, 1, Len(digits) - 1))
         + DigitValue(SubSeq(digits, Len(digits), Len(digits)))

RECURSIVE Pow10(_)
Pow10(n) == IF n = 0 THEN 1 ELSE 10 * Pow10(n - 1)

\* the value of the digits `whole`, the decimals `frac` and the sign
FloatOf(negative, whole, frac) ==
    The({Float(IF negative THEN -num ELSE num, Pow10(Len(frac))) :
            num \in {int(whole) * Pow10(Len(frac)) + int(frac)}})

\* float(group) of a text matched by -?\d+(\.\d+)?
float(group) ==
    The({The({FloatOf(StartsAt(group, 1, "-"),
                      SubSeq(body, 1, intEnd - 1),
                      SubSeq(body, intEnd + 1, Len(body))) :
                 intEnd \in {DigitsEnd(body, 1)}}) :
            body \in {IF StartsAt(group, 1, "-") THEN Tail(group) ELSE group}})

FloatAdd(a, b) == Float(a.num * b.den + b.num * a.den, a.den * b.den)
FloatLess(a, b) == a.num * b.den < b.num * a.den
\* a / n for a positive integer n
FloatDivInt(a, n) == Float(a.num, a.den * n)

\* ------------------------------------------------------------------------
\* audio_agent_library.py: AudioAgent
\* ------------------------------------------------------------------------
\* AudioAgent.supported_operations, in the order the dict lists them
AgentCatalog ==
    <<[operation |-> "trim",
       aliases |-> <<"cut", "slice", "remove", "delete", "extract">>,
       description |-> "Trim audio to specific time range"],
      [operation |-> "normalize",
       aliases |-> <<"balance", "level", "adjust volume", "fix levels">>,
       description |-> "Normalize audio levels to target dB"],
      [operation |-> "fade_in",
       aliases |-> <<"fade", "smooth start", "gradual start">>,
       description |-> "Apply fade in effect"],
      [operation |-> "fade_out",
       aliases |-> <<"fade end", "smooth end", "gradual end">>,
       description |-> "Apply fade out effect"],
      [operation |-> "change_speed",
       aliases |-> <<"speed up", "slow down", "tempo", "pace">>,
       description |-> "Change audio playback speed"],
      [operation |-> "change_pitch",
       aliases |-> <<"pitch", "tune", "key", "note">>,
       description |-> "Change audio pitch"],
      [operation |-> "time_stretch_torch",
       aliases |-> <<"time stretch", "stretch", "tempo stretch">>,
       description |-> "Time stretch audio using torchaudio"],
      [operation |-> "add_reverb",
       aliases |-> <<"reverb", "echo", "room", "space">>,
       description |-> "Add reverb effect"],
      [operation |-> "noise_reduction",
       aliases |-> <<"remove noise", "clean", "filter", "denoise">>,
       description |-> "Reduce background noise"],
      [operation |-> "equalize",
       aliases |-> <<"eq", "equalizer", "bass", "treble", "balance">>,
       description |-> "Apply equalization"],
      [operation |-> "compress",
       aliases |-> <<"compression", "dynamic range", "squash">>,
       description |-> "Apply dynamic range compression"],
      [operation |-> "merge",
       aliases |-> <<"combine", "join", "concatenate", "add">>,
       description |-> "Merge multiple audio files"],
      [operation |-> "split",
       aliases |-> <<"divide", "separate", "segment", "cut into">>,
       description |-> "Split audio into segments"],
      [operation |-> "convert_format",
       aliases |-> <<"convert", "export", "save as", "format">>,
       description |-> "Convert to different audio format"]>>

\* what a call gives: a value, or the exception it raised
Returned(value) == [raised |-> FALSE, value |-> value]
Raised(error)   == [raised |-> TRUE, error |-> error]

DefaultDb == Float(-20, 1)

\* _extract_parameters, the branch of change_speed (lines 265-280)
extract_change_speed(text) ==
    LET ratio_match == re_search(RatioUnits, FALSE, TRUE, text) IN
    IF ratio_match.found
    THEN LET speed == float(ratio_match.group) IN
         IF Contains(text, "slow") \/ Contains(text, "down")
         THEN IF speed.num = 0
              THEN Raised("ZeroDivisionError")
              ELSE Returned([speed_factor |-> Float(speed.den, speed.num)])
         ELSE Returned([speed_factor |-> speed])
    ELSE IF Contains(text, "fast") \/ Contains(text, "speed up")
    THEN Returned([speed_factor |-> Float(15, 10)])
    ELSE IF Contains(text, "slow") \/ Contains(text, "slow down")
    THEN Returned([speed_factor |-> Float(8, 10)])
    ELSE Returned([speed_factor |-> Float(1, 1)])

\* _extract_parameters, the branch of normalize (lines 257-263)
extract_normalize(text) ==
    LET db_match == re_search(DbUnits, TRUE, TRUE, text) IN
    IF db_match.found
    THEN Returned([target_db |-> float(db_match.group)])
    ELSE Returned([target_db |-> DefaultDb])

\* _extract_parameters, the branch of trim (lines 245-255)
extract_trim(text) ==
    LET time_matches == re_findall(TimeUnits, FALSE, TRUE, text) IN
    IF Len(time_matches) >= 2
    THEN Returned([start_time |-> float(time_matches[1]),
                   end_time   |-> float(time_matches[2])])
    ELSE IF Len(time_matches) = 1
    THEN IF Contains(text, "from") \/ Contains(text, "start")
         THEN Returned([start_time |-> float(time_matches[1])])
         ELSE IF Contains(text, "to") \/ Contains(text, "end")
         THEN Returned([end_time |-> float(time_matches[1])])
         ELSE Returned(EmptyDict)
    ELSE Returned(EmptyDict)

_extract_parameters(text, operation) ==
    IF operation = "trim" THEN extract_trim(text)
    ELSE IF operation = "normalize" THEN extract_normalize(text)
    ELSE IF operation = "change_speed" THEN extract_change_speed(text)
    ELSE IF operation = "time_stretch_torch"
    THEN LET ratio_match == re_search(RatioUnits, FALSE, TRUE, text) IN
         IF ratio_match.found THEN Returned([rate |-> float(ratio_match.group)])
         ELSE IF Contains(text, "half") THEN Returned([rate |-> Float(5, 10)])
         ELSE IF Contains(text, "double") \/ Contains(text, "twice")
         THEN Returned([rate |-> Float(2, 1)])
         ELSE Returned([rate |-> Float(1, 1)])
    ELSE IF operation = "change_pitch"
    THEN LET semitone_match == re_search(SemitoneUnits, FALSE, FALSE, text) IN
         IF semitone_match.found
         THEN LET steps == int(semitone_match.group) IN
              IF Contains(text, "lower") \/ Contains(text, "down")
              THEN Returned([pitch_steps |-> -steps])
              ELSE Returned([pitch_steps |-> steps])
         ELSE Returned([pitch_steps |-> 0])
    ELSE IF operation \in {"fade_in", "fade_out"}
    THEN LET time_match == re_search(TimeUnits, FALSE, TRUE, text) IN
         IF time_match.found THEN Returned([duration |-> float(time_match.group)])
         ELSE Returned([duration |-> Float(1, 1)])
    ELSE IF operation = "convert_format"
    THEN The({Returned([target_format |-> IF format_match.found
                                          THEN format_match.group ELSE "mp3",
                        quality       |-> IF quality_match.found
                                          THEN quality_match.group ELSE "high"]) :
                 format_match \in {SearchWord(text, FormatNames)},
                 quality_match \in {SearchQuality(text)}})
    ELSE Returned(EmptyDict)

\* the loop body without its `continue`: the aliases are scanned after a hit
\* of the canonical name too
Identify_without_continue(text, k) ==
    (IF Contains(text, AgentCatalog[k].operation)
     THEN <<[operation   |-> AgentCatalog[k].operation,
             parameters  |-> _extract_parameters(text, AgentCatalog[k].operation),
             confidence  |-> Float(1, 1),
             description |-> AgentCatalog[k].description]>>
     ELSE <<>>)
    \o (IF \E a \in DOMAIN AgentCatalog[k].aliases :
              Contains(text, AgentCatalog[k].aliases[a])
        THEN <<[operation   |-> AgentCatalog[k].operation,
                parameters  |-> _extract_parameters(text, AgentCatalog[k].operation),
                confidence  |-> Float(9, 10),
                description |-> AgentCatalog[k].description]>>
        ELSE <<>>)

\* the candidate parse_natural_language appends for catalog entry k, if any:
\* confidence 1.0 for the canonical name, else 0.9 for the first alias that
\* occurs (tenths is 10, 9, or 0 for no candidate)
Identify(text, k) ==
    The({IF tenths = 0 THEN <<>>
         ELSE <<[operation   |-> AgentCatalog[k].operation,
                 parameters  |-> _extract_parameters(text, AgentCatalog[k].operation),
                 confidence  |-> Float(tenths, 10),
                 description |-> AgentCatalog[k].description]>> :
            tenths \in {IF Contains(text, AgentCatalog[k].operation) THEN 10
                        ELSE IF \E a \in DOMAIN AgentCatalog[k].aliases :
                                   Contains(text, AgentCatalog[k].aliases[a])
                        THEN 9 ELSE 0}})

\* the loop over supported_operations.items(), entries k..end
RECURSIVE IdentifyFrom(_, _)
IdentifyFrom(text, k) ==
    IF k > Len(AgentCatalog) THEN <<>>
    ELSE Identify(text, k) \o IdentifyFrom(text, k + 1)

\* the candidates left in the order the catalog loop found them
SortByConfidence_skipped(ops) == ops

\* list.sort(key=confidence, reverse=True): stable, descending
RECURSIVE SortByConfidence(_)
SortByConfidence(ops) ==
    IF ops = <<>> THEN <<>>
    ELSE The({LET x == ops[Len(ops)]
                  n == Cardinality({i \in DOMAIN rest :
                                       ~FloatLess(rest[i].confidence, x.confidence)})
              IN SubSeq(rest, 1, n) \o <<x>> \o SubSeq(rest, n + 1, Len(rest)) :
                 rest \in {SortByConfidence(SubSeq(ops, 1, Len(ops) - 1))}})

RECURSIVE SumConfidence(_)
SumConfidence(ops) ==
    IF ops = <<>> THEN Float(0, 1)
    ELSE FloatAdd(ops[1].confidence, SumConfidence(Tail(ops)))

\* AudioAgent.parse_natural_language
\* lines 232-239: sort, mean, result
ParsedResult(text, found, timestamp) ==
    The({Returned([operations  |-> identified,
                   confidence  |-> FloatDivInt(SumConfidence(identified),
                                       IF Len(identified) > 1
                                       THEN Len(identified) ELSE 1),
                   parsed_text |-> text,
                   timestamp   |-> timestamp]) :
            identified \in {SortByConfidence(
                                [i \in DOMAIN found |->
                                    [found[i] EXCEPT !.parameters = @.value]])}})

\* lines 210-230 on the normalised text: the first extraction that raises
\* ends the call
ParseText(text, timestamp) ==
    The({LET failing == {i \in DOMAIN found : found[i].parameters.raised} IN
         IF failing # {}
         THEN Raised(found[CHOOSE i \in failing : \A j \in failing : i <= j]
                         .parameters.error)
         ELSE ParsedResult(text, found, timestamp) :
            found \in {IdentifyFrom(text, 1)}})

\* AudioAgent.parse_natural_language
parse_natural_language(message, timestamp) ==
    The({ParseText(text, timestamp) : text \in {strip(lower(message))}})

\* generate_operation_chain: the fixed order of its body
operation_order ==
    <<"noise_reduction", "normalize", "equalize", "compress", "trim", "fade_in",
      "fade_out", "time_stretch_torch", "change_speed", "change_pitch",
      "add_reverb", "split", "merge", "convert_format">>

\* the first loop: for each name of the order, the candidates that carry it
RECURSIVE SortedByOrder(_, _)
SortedByOrder(ops, k) ==
    IF k > Len(operation_order) THEN <<>>
    ELSE LET HasName(op) == op.operation = operation_order[k]
         IN SelectSeq(ops, HasName) \o SortedByOrder(ops, k + 1)

\* `op in sorted_operations`: list membership by equality of the dicts
InList(op, list) == \E i \in DOMAIN list : list[i] = op

\* the second loop: append each candidate that the list does not hold yet
RECURSIVE AddRemaining(_, _, _)
AddRemaining(sorted_operations, ops, i) ==
    IF i > Len(ops) THEN sorted_operations
    ELSE IF ~InList(ops[i], sorted_operations)
    THEN AddRemaining(Append(sorted_operations, ops[i]), ops, i + 1)
    ELSE AddRemaining(sorted_operations, ops, i + 1)

\* AudioAgent.generate_operation_chain
generate_operation_chain(ops) == AddRemaining(SortedByOrder(ops, 1), ops, 1)

\* AudioAgent.create_processing_request
create_processing_request(ops, audio_file, clock) ==
    [request_id    |-> "audio_agent_" \o ToString(clock),
     audio_file    |-> audio_file,
     operations    |-> [i \in DOMAIN ops |->
                           [name |-> ops[i].operation,
                            parameters |-> ops[i].parameters]],
     priority      |-> "normal",
     description   |-> "Generated by Audio Agent",
     timestamp     |-> clock,
     agent_version |-> "1.0.0"]

\* ------------------------------------------------------------------------
\* gemini_audio_integration.py, audio_agent_api.py: the agent's endpoint
\* ------------------------------------------------------------------------
NotCalled == [called |-> FALSE]
Called(result) == [called |-> TRUE, result |-> result]

\* GeminiAudioIntegration.process_audio_request with gemini_client None,
\* after step 1 gave parsed_operations: the history it leaves and what it
\* returns or raises
ProcessParsed(history, message, audio_file, clock, parsed_operations) ==
    LET asked             == Append(history, [role |-> "user", content |-> message,
                                              timestamp |-> clock])
        chain             == generate_operation_chain(parsed_operations.value.operations)
        processing_request ==
            DictUpdate(create_processing_request(chain, audio_file, clock),
                [conversation_context |->
                    [user_message      |-> message,
                     parsed_confidence |-> parsed_operations.value.confidence,
                     conversation_history_length |-> Len(asked)]])
    IN IF parsed_operations.raised
       THEN [history |-> asked, outcome |-> Raised(parsed_operations.error)]
       ELSE [history |-> Append(asked,
                            [role |-> "assistant",
                             content |-> "Processed audio request with "
                                         \o ToString(Len(chain)) \o " operations",
                             timestamp |-> clock,
                             operations |-> chain]),
             outcome |-> Returned(processing_request)]

process_audio_request(history, message, audio_file, clock) ==
    The({ProcessParsed(history, message, audio_file, clock, parsed_operations) :
            parsed_operations \in {parse_natural_language(message, clock)}})

\* POST /api/audio/process-natural with request.message = user_message
process_natural_language_audio ==
    /\ Len(conversation_history) < 2 * MaxCalls
    /\ \E call \in {process_audio_request(conversation_history, user_message, None, now)} :
          /\ conversation_history' = call.history
          /\ IF call.outcome.raised
             THEN /\ response' = Reply("process_natural",
                                       IF call.outcome.error = "ValueError"
                                       THEN 400 ELSE 500)
                  /\ UNCHANGED agent_requests
             ELSE LET result     == call.outcome.value
                      request_id == result.request_id
                  IN /\ agent_requests' =
                            Put(agent_requests, request_id,
                                [status    |-> "processed",
                                 request   |-> [message |-> user_message,
                                                audio_file |-> None,
                                                priority |-> "normal",
                                                description |-> ""],
                                 result    |-> result,
                                 timestamp |-> now])
                     /\ response' = Reply("process_natural", 200)
    /\ UNCHANGED <<gatewayVars, redis_enabled, orchVars, serviceVars, cacheVars, mqttVars, workerVars,
                   updaters, budget, user_message, parsed, operations,
                   operation_chain, now>>

\* a call of parse_natural_language on the text
call_parse_natural_language ==
    /\ \E result \in {parse_natural_language(user_message, now)} :
          parsed' = Called(result)
    /\ UNCHANGED <<gatewayVars, redis_enabled, orchVars, serviceVars, cacheVars, mqttVars, workerVars,
                   updaters, budget, response, user_message, operations,
                   operation_chain, agent_requests, conversation_history, now>>

\* a call of generate_operation_chain on the candidates
call_generate_operation_chain ==
    /\ operation_chain' = Called(generate_operation_chain(operations))
    /\ UNCHANGED <<gatewayVars, redis_enabled, orchVars, serviceVars, cacheVars, mqttVars, workerVars,
                   updaters, budget, response, user_message, parsed, operations,
                   agent_requests, conversation_history, now>>

\* datetime.now() moves on by a second
tick ==
    /\ now < MaxClock
    /\ now' = now + 1
    /\ UNCHANGED <<gatewayVars, redis_enabled, orchVars, serviceVars, cacheVars, mqttVars, workerVars,
                   updaters, budget, response, user_message, parsed, operations,
                   operation_chain, agent_requests, conversation_history>>

\* the phrases request texts are made of
Phrases ==
    {"Normalize", " to -6 dB", " to -20 dB", "slow down", " 0x", " 2x",
     "fade_out", "trim", " 5 sec", "hello", "cut"}

\* the texts of at most n phrases
RECURSIVE TextsOf(_)
TextsOf(n) ==
    IF n = 0 THEN {""}
    ELSE TextsOf(n - 1) \cup {t \o p : t \in TextsOf(n - 1), p \in Phrases}

Texts == TextsOf(MaxPhrases)

\* the candidates handed to the planner: known names (trim twice, with
\* different parameters) and names the order does not list
Candidates ==
    {[operation |-> "fade_in", parameters |-> [duration |-> 1]],
     [operation |-> "noise_reduction", parameters |-> [strength |-> 1]],
     [operation |-> "trim", parameters |-> [start_time |-> 0]],
     [operation |-> "trim", parameters |-> [start_time |-> 5]],
     [operation |-> "frobnicate", parameters |-> [level |-> 1]],
     [operation |-> "wibble", parameters |-> [level |-> 1]]}

RECURSIVE ChainsOf(_)
ChainsOf(n) ==
    IF n = 0 THEN {<<>>}
    ELSE ChainsOf(n - 1) \cup {Append(c, op) : c \in ChainsOf(n - 1), op \in Candidates}

ChainInputs == ChainsOf(MaxChain)

\* ------------------------------------------------------------------------
\* orchestrator.py: WorkflowOrchestrator on Redis/RQ and MQTT
\* ------------------------------------------------------------------------
\* self.workflows as __init__ leaves it
BasicWorkflow ==
    <<[operation |-> "trim", parameters |-> EmptyDict, ttl |-> 300, retries |-> 1],
      [operation |-> "normalize", parameters |-> EmptyDict, ttl |-> 300, retries |-> 1]>>

WorkflowNames == {"basic", "missing"}

\* str(uuid.uuid4()) of the n-th step: an id no Request of the gateway has
StepId(n) == GhostId + n

\* the workflow ids given out so far
WorkflowIds == {rq_jobs[i].payload.workflow_id : i \in DOMAIN rq_jobs}

\* None where the other values are integers (a step's ttl and retries)
NoneInt == 0 - 1

\* int(step.get(key, default)) of enqueue_workflow is a TypeError for None
IntArg(step, key, default) == PayloadGet(step, key, default)

IntRaises(step) ==
    IntArg(step, "ttl", 3600) = NoneInt \/ IntArg(step, "retries", 0) = NoneInt

\* the body of the loop of enqueue_workflow: the job queue.enqueue creates for
\* the step, the k-th job of the queue
StepJob(step, workflow_id, k) ==
    [payload   |-> [id          |-> StepId(k),
                    workflow_id |-> workflow_id,
                    operation   |-> step.operation,
                    parameters  |-> step.parameters,
                    callback    |-> StatusTopic(StepId(k))],
     ttl       |-> IntArg(step, "ttl", 3600),
     retry_max |-> IntArg(step, "retries", 0),
     attempts  |-> 0,      \* executions of _dispatch_step for the job
     unsent    |-> 0,      \* executions that did not publish the job
     status    |-> "queued"]

\* the steps the loop of enqueue_workflow enqueues before int() raises
Enqueued(steps) ==
    IF \E i \in DOMAIN steps : IntRaises(steps[i])
    THEN (CHOOSE i \in DOMAIN steps :
              IntRaises(steps[i]) /\ \A k \in 1..(i - 1) : ~IntRaises(steps[k])) - 1
    ELSE Len(steps)

\* enqueue_workflow on the table of workflows wfs: ValueError for a name
\* without steps (answered here as code 400), else one RQ job per step of the
\* workflow, up to the step whose int() raises TypeError (code 500)
EnqueueInto(wfs, workflow_name) ==
    /\ Cardinality(WorkflowIds) < MaxWorkflows
    /\ IF workflow_name \notin DOMAIN wfs \/ wfs[workflow_name] = <<>>
       THEN /\ response' = Reply("enqueue_workflow", 400)
            /\ UNCHANGED rq_jobs
       ELSE /\ rq_jobs' = rq_jobs \o
                   [i \in 1..Enqueued(wfs[workflow_name]) |->
                       StepJob(wfs[workflow_name][i],
                               Cardinality(WorkflowIds) + 1, Len(rq_jobs) + i)]
            /\ response' = Reply("enqueue_workflow",
                                 IF Enqueued(wfs[workflow_name]) = Len(wfs[workflow_name])
                                 THEN 200 ELSE 500)

enqueue_workflow(workflow_name) ==
    /\ EnqueueInto(workflows, workflow_name)
    /\ UNCHANGED <<gatewayVars, redis_enabled, agentVars, serviceVars, cacheVars, mqttVars,
                   workerVars, updaters, budget, workflows, flow, actions>>

\* _dispatch_step: the messages it publishes when the first `sent` calls of
\* mqtt_client.publish succeed; the exception of a failing call is caught
\* and logged, so the function returns in every case
_dispatch_step(payload, sent) ==
    Returned(SubSeq(<<[topic |-> EditTopic, payload |-> payload],
                      [topic |-> payload.callback,
                       payload |-> [status |-> "dispatched"]]>>, 1, sent))

RECURSIVE DeliverAll(_, _, _)
DeliverAll(feed, msgs, subscriptions) ==
    IF msgs = <<>> THEN feed
    ELSE DeliverAll(Deliver(feed, Head(msgs), subscriptions), Tail(msgs), subscriptions)

\* rq Worker.perform_job with Retry(max): a job whose function returns is
\* finished; one whose function raises is queued again while retries are
\* left and failed after that
JobAfter(job, outcome) ==
    [job EXCEPT !.attempts = @ + 1,
                !.unsent   = IF outcome.raised \/ outcome.value = <<>> THEN @ + 1 ELSE @,
                !.status   = IF ~outcome.raised THEN "finished"
                             ELSE IF job.attempts < job.retry_max THEN "queued"
                             ELSE "failed"]

\* the RQ worker runs job j
perform_job(j, sent) ==
    /\ j \in DOMAIN rq_jobs
    /\ rq_jobs[j].status = "queued"
    /\ \E outcome \in {_dispatch_step(rq_jobs[j].payload, sent)} :
          /\ rq_jobs' = [rq_jobs EXCEPT ![j] = JobAfter(@, outcome)]
          /\ statusFeed' = IF outcome.raised THEN statusFeed
                           ELSE DeliverAll(statusFeed, outcome.value, GatewaySubscriptions)
          /\ workerFeed' = IF outcome.raised \/ worker.pc = "down" THEN workerFeed
                           ELSE DeliverAll(workerFeed, outcome.value, WorkerSubscriptions)
    /\ UNCHANGED <<gatewayVars, redis_enabled, agentVars, serviceVars, cacheVars, workerVars,
                   updaters, budget, response, workflows, flow, actions>>

\* an Optional[set]: None, or the set of names
NoOps == [known |-> FALSE]
Ops(names) == [known |-> TRUE, names |-> names]

\* the AudioAgent discovery of parse_flow, lines 65-73: the set of the keys
\* of agent.supported_operations, or None when the class could not be
\* imported or its constructor raised
AgentOperations == {AgentCatalog[k].operation : k \in DOMAIN AgentCatalog}

\* the loop of parse_flow from step idx on, lines 77-104: the actions of the
\* steps, or the ValueError of the first step it refuses (`if supported_ops`
\* is false for None and for the empty set)
RECURSIVE ParseSteps(_, _, _)
ParseSteps(steps, idx, supported_ops) ==
    IF idx > Len(steps) THEN Returned(<<>>)
    ELSE IF "type" \notin DOMAIN steps[idx]
    THEN Raised("ValueError")
    ELSE IF supported_ops.known /\ supported_ops.names # {}
            /\ steps[idx].type \notin supported_ops.names
    THEN Raised("ValueError")
    ELSE The({IF rest.raised THEN rest
              ELSE Returned(<<[name       |-> steps[idx].name,
                               operation  |-> steps[idx].type,
                               parameters |-> EmptyDict,
                               mqtt       |-> [topic |-> EditTopic,
                                               payload |-> [request_id |-> idx,
                                                            operation |-> steps[idx].type,
                                                            parameters |-> EmptyDict]],
                               ttl        |-> PayloadGet(steps[idx], "ttl", NoneInt),
                               retries    |-> PayloadGet(steps[idx], "retries", NoneInt)]>>
                            \o rest.value) :
                 rest \in {ParseSteps(steps, idx + 1, supported_ops)}})

\* parse_flow on the steps of a readable YAML/JSON file
parse_flow(steps, supported_ops, discovered) ==
    ParseSteps(steps, 1, IF supported_ops.known THEN supported_ops ELSE discovered)

\* a call of parse_flow on the flow at hand
call_parse_flow ==
    /\ actions' = Called(parse_flow(flow.steps, flow.supported_ops, flow.discovered))
    /\ UNCHANGED <<gatewayVars, redis_enabled, agentVars, serviceVars, cacheVars, mqttVars,
                   workerVars, updaters, budget, response, workflows, rq_jobs, flow>>

\* load_workflow_from_file: the steps stored for the actions of parse_flow
\* (a.get(key, default) gives the action's own value, None included)
StepsOf(acts) ==
    [i \in DOMAIN acts |->
        [operation  |-> acts[i].operation,
         parameters |-> acts[i].parameters,
         ttl        |-> PayloadGet(acts[i], "ttl", 3600),
         retries    |-> PayloadGet(acts[i], "retries", 0)]]

\* self.workflows after load_workflow_from_file(name, file) whose parse_flow gave acts
Loaded(wfs, name, acts) ==
    [n \in DOMAIN wfs \cup {name} |-> IF n = name THEN StepsOf(acts) ELSE wfs[n]]

\* load_workflow_from_file on the flow at hand; the ValueError of parse_flow
\* goes to the caller (code 400)
load_workflow_from_file(name) ==
    /\ \E parsedFlow \in {parse_flow(flow.steps, NoOps, flow.discovered)} :
          IF parsedFlow.raised
          THEN /\ response' = Reply("load_workflow_from_file", 400)
               /\ UNCHANGED workflows
          ELSE /\ response' = Reply("load_workflow_from_file", 200)
               /\ workflows' = Loaded(workflows, name, parsedFlow.value)
    /\ UNCHANGED <<gatewayVars, redis_enabled, agentVars, serviceVars, cacheVars, mqttVars,
                   workerVars, updaters, budget, rq_jobs, flow, actions>>

\* enqueue_from_file: load under a temporary name, then enqueue_workflow
enqueue_from_file ==
    /\ \E parsedFlow \in {parse_flow(flow.steps, NoOps, flow.discovered)} :
          IF parsedFlow.raised
          THEN /\ response' = Reply("load_workflow_from_file", 400)
               /\ UNCHANGED <<workflows, rq_jobs>>
          ELSE /\ workflows' = Loaded(workflows, "flow", parsedFlow.value)
               /\ EnqueueInto(Loaded(workflows, "flow", parsedFlow.value), "flow")
    /\ UNCHANGED <<gatewayVars, redis_enabled, agentVars, serviceVars, cacheVars, mqttVars,
                   workerVars, updaters, budget, flow, actions>>

\* the steps a flow file may list: a known type with and without ttl and
\* retries, an unknown type, no type
FlowSteps ==
    {[name |-> "cut", type |-> "trim"],
     [name |-> "cut", type |-> "trim", ttl |-> 60, retries |-> 2],
     [name |-> "step", type |-> "unknown"],
     [name |-> "step"]}

RECURSIVE FlowsOf(_)
FlowsOf(n) ==
    IF n = 0 THEN {<<>>}
    ELSE FlowsOf(n - 1) \cup {Append(f, st) : f \in FlowsOf(n - 1), st \in FlowSteps}

\* the calls of parse_flow: the file's steps, the supported_ops argument and
\* what the discovery would give
FlowInputs ==
    [steps         : FlowsOf(MaxSteps),
     supported_ops : {NoOps, Ops({"trim"}), Ops({})},
     discovered    : {NoOps, Ops(AgentOperations), Ops({})}]

NoFlow == [steps |-> <<>>, supported_ops |-> NoOps, discovered |-> NoOps]

InitOrch ==
    /\ workflows = [basic |-> BasicWorkflow]
    /\ rq_jobs = <<>>
    /\ actions = NotCalled

\* ------------------------------------------------------------------------
\* mcp_audio_server.py: process_operations
\* ------------------------------------------------------------------------
\* the names the if/elif chain of process_operations knows
PipelineNames == {"trim", "fade_in", "fade_out", "normalize"}

\* int(op.get("duration", 1000)) raises ValueError for a text that is no number
OperationRaises(op) ==
    /\ op.name \in {"fade_in", "fade_out"}
    /\ "duration" \in DOMAIN op
    /\ op.duration \notin {"500", "1000"}

\* the loop of process_operations with the unsupported operations skipped
\* instead of refused
ApplyFrom_skip_unsupported(ops, idx, audio) ==
    LET RECURSIVE Go(_, _)
        Go(i, a) ==
            IF i > Len(ops) THEN [raised |-> FALSE, audio |-> a]
            ELSE IF ops[i].name \notin PipelineNames THEN Go(i + 1, a)
            ELSE IF OperationRaises(ops[i])
            THEN [raised |-> TRUE, error |-> "ValueError", audio |-> a]
            ELSE Go(i + 1, Append(a, ops[i]))
    IN Go(idx, audio)

\* the loop of process_operations from operation idx on, lines 236-250: the
\* AudioSegment is the list of the operations applied to the loaded file
RECURSIVE ApplyFrom(_, _, _)
ApplyFrom(ops, idx, audio) ==
    IF idx > Len(ops) THEN [raised |-> FALSE, audio |-> audio]
    ELSE IF ops[idx].name \notin PipelineNames
    THEN [raised |-> TRUE, error |-> "ValueError", audio |-> audio]
    ELSE IF OperationRaises(ops[idx])
    THEN [raised |-> TRUE, error |-> "ValueError", audio |-> audio]
    ELSE ApplyFrom(ops, idx + 1, Append(audio, ops[idx]))

\* process_operations(file_path, operations): what it raises or returns, the
\* AudioSegment it held last, the files it wrote under processed/
process_operations(ops) ==
    IF ops = <<>>
    THEN [raised |-> TRUE, error |-> "ValueError", audio |-> <<>>, exported |-> {}]
    ELSE The({IF applied.raised
              THEN [raised |-> TRUE, error |-> applied.error,
                    audio |-> applied.audio, exported |-> {}]
              ELSE [raised |-> FALSE, value |-> "processed/in_processed.wav",
                    audio |-> applied.audio, exported |-> {applied.audio}] :
                 applied \in {ApplyFrom(ops, 1, <<>>)}})

call_process_operations ==
    /\ ~pipeline.outcome.called
    /\ pipeline' = [pipeline EXCEPT !.outcome = Called(process_operations(pipeline.operations))]
    /\ UNCHANGED <<gatewayVars, redis_enabled, agentVars, orchVars, cacheVars, mqttVars,
                   workerVars, updaters, budget, response, mcp_client>>

\* the operations a job may list: supported ones, one whose parameter makes
\* it raise, one the pipeline does not know
PipelineOps ==
    {[name |-> "trim"], [name |-> "normalize"], [name |-> "fade_in", duration |-> "500"],
     [name |-> "fade_out", duration |-> "long"], [name |-> "reverb"]}

RECURSIVE PipelinesOf(_)
PipelinesOf(n) ==
    IF n = 0 THEN {<<>>}
    ELSE PipelinesOf(n - 1) \cup {Append(p, op) : p \in PipelinesOf(n - 1), op \in PipelineOps}

NoPipeline == [operations |-> <<>>, outcome |-> [called |-> FALSE]]

\* ------------------------------------------------------------------------
\* Specifications
\* ------------------------------------------------------------------------
\* the gateway's client after a successful startup, no pipeline call yet
InitService ==
    /\ budget = MaxExternal
    /\ mcp_client = StartedClient
    /\ pipeline = NoPipeline

\* the agent process before any request
InitAgent ==
    /\ parsed = NotCalled
    /\ operation_chain = NotCalled
    /\ agent_requests = EmptyDict
    /\ conversation_history = <<>>
    /\ now = 0

InitGateway ==
    /\ db = EmptyDict
    /\ nextId = 1
    /\ files = {}
    /\ active_requests = EmptyDict
    /\ redis_store = EmptyDict
    /\ statusFeed = <<>>
    /\ workerFeed = <<>>
    /\ processing_queue = <<>>
    /\ llmPending = {}
    /\ updaters = [u \in Updaters |-> Idle]
    /\ published = {}
    /\ response = Reply("none", 0)
    /\ InitAgent
    /\ InitOrch

\* the gateway alone on the broker: redis not installed, worker not started
Init ==
    /\ InitGateway
    /\ user_message = ""
    /\ operations = <<>>
    /\ flow = NoFlow
    /\ InitService
    /\ redis_enabled = FALSE
    /\ worker = [pc |-> "down", results_cache |-> {}]

\* the gateway and the clients that publish on the status channel
Next ==
    \/ \E operation \in {"trim", "frobnicate"}, goodJson, publishOk \in BOOLEAN :
           submit_audio_edit(operation, goodJson, publishOk)
    \/ llm_chat_begin
    \/ \E id \in RequestIds, code \in {200, 502} : llm_chat_end(id, code)
    \/ \E id \in EventIds : cancel_request(id)
    \/ listen_status_updates
    \/ \E id \in EventIds, event \in StatusEvents : PublishStatus(id, event)
    \/ dispatch_step_status

Spec == Init /\ [][Next]_vars

\* the gateway and the started worker, jobs arriving on the worker's topic
InitFlow ==
    /\ InitGateway
    /\ user_message = ""
    /\ operations = <<>>
    /\ flow = NoFlow
    /\ InitService
    /\ redis_enabled = FALSE
    /\ worker = [pc |-> "idle", results_cache |-> {}]

NextFlow ==
    \/ \E operation \in {"trim", "frobnicate"}, goodJson, publishOk \in BOOLEAN :
           submit_audio_edit(operation, goodJson, publishOk)
    \/ llm_chat_begin
    \/ \E id \in RequestIds, code \in {200, 502} : llm_chat_end(id, code)
    \/ \E id \in EventIds : cancel_request(id)
    \/ listen_status_updates
    \/ handle_mqtt_messages
    \/ process_single_request
    \/ \E executorOk \in BOOLEAN : execute_audio_operation(executorOk)
    \/ publish_result
    \/ \E id \in EventIds, operation \in {"trim", "frobnicate"} : PublishJob(id, operation)

SpecFlow == InitFlow /\ [][NextFlow]_vars

\* the worker alone with its jobs, the publish of the result failing or not
NextWorker ==
    \/ \E publishOk \in BOOLEAN : submit_audio_edit("trim", TRUE, publishOk)
    \/ listen_status_updates
    \/ handle_mqtt_messages
    \/ process_single_request
    \/ \E executorOk \in BOOLEAN : execute_audio_operation(executorOk)
    \/ publish_result
    \/ publish_result_raises
    \/ \E id \in EventIds, operation \in {"trim", "frobnicate"} : PublishJob(id, operation)

SpecWorker == InitFlow /\ [][NextWorker]_vars

\* the request store under concurrent callers of its two update paths
InitStore ==
    /\ InitGateway
    /\ user_message = ""
    /\ operations = <<>>
    /\ flow = NoFlow
    /\ InitService
    /\ redis_enabled \in BOOLEAN
    /\ worker = [pc |-> "down", results_cache |-> {}]

NextStore ==
    \/ \E publishOk \in BOOLEAN : submit_audio_edit("trim", TRUE, publishOk)
    \/ \E u \in Updaters, id \in EventIds, fields \in FieldSets :
           durable_update_begin(u, id, fields)
    \/ \E u \in Updaters : durable_update_end(u)
    \/ \E u \in Updaters, id \in EventIds, fields \in FieldSets :
           update_request(u, id, fields)
    \/ \E u \in Updaters, id \in EventIds, fields \in FieldSets :
           update_request_get(u, id, fields)
    \/ \E u \in Updaters : update_request_save(u)

SpecStore == InitStore /\ [][NextStore]_vars

\* the two submission endpoints and cancellation, the broker reachable or not
NextSubmit ==
    \/ \E operation \in {"trim", "frobnicate"}, goodJson, publishOk \in BOOLEAN :
           submit_audio_edit(operation, goodJson, publishOk)
    \/ \E result \in LlmResults, publishOk \in BOOLEAN : chat_audio(result, publishOk)
    \/ \E id \in EventIds : cancel_request(id)

SpecSubmit == Init /\ [][NextSubmit]_vars

\* the agent's resolver on every text of the bounded set
InitResolver ==
    /\ InitGateway
    /\ redis_enabled = FALSE
    /\ worker = [pc |-> "down", results_cache |-> {}]
    /\ user_message \in Texts
    /\ operations = <<>>
    /\ flow = NoFlow
    /\ InitService

NextResolver == call_parse_natural_language

SpecResolver == InitResolver /\ [][NextResolver]_vars

\* the agent's endpoint on every text of the bounded set, as seconds pass
NextAgent ==
    \/ process_natural_language_audio
    \/ tick

SpecAgent == InitResolver /\ [][NextAgent]_vars

\* the agent's planner on every candidate list of the bounded set
InitPlanner ==
    /\ InitGateway
    /\ redis_enabled = FALSE
    /\ worker = [pc |-> "down", results_cache |-> {}]
    /\ user_message = ""
    /\ operations \in ChainInputs
    /\ flow = NoFlow
    /\ InitService

NextPlanner == call_generate_operation_chain

SpecPlanner == InitPlanner /\ [][NextPlanner]_vars

\* status events that carry a result: of a job still running, of a finished one
ResultEvents ==
    {[status |-> "processing", progress |-> "0.5", result |-> "resA"],
     [status |-> "completed", result |-> "resA"]}

\* the gateway and a client that reports results on the status channel
NextEvents ==
    \/ \E publishOk \in BOOLEAN : submit_audio_edit("trim", TRUE, publishOk)
    \/ llm_chat_begin
    \/ \E id \in RequestIds, code \in {200, 502} : llm_chat_end(id, code)
    \/ \E id \in EventIds : cancel_request(id)
    \/ listen_status_updates
    \/ \E id \in EventIds, event \in ResultEvents : PublishStatus(id, event)

SpecEvents == Init /\ [][NextEvents]_vars

\* the gateway's submissions, status events and downloads
NextDownload ==
    \/ submit_audio_edit("trim", TRUE, TRUE)
    \/ llm_chat_begin
    \/ \E id \in RequestIds, code \in {200, 502} : llm_chat_end(id, code)
    \/ listen_status_updates
    \/ \E id \in EventIds, event \in ResultEvents : PublishStatus(id, event)
    \/ \E id \in EventIds, processedExists \in BOOLEAN :
           call_download_processed_audio(id, processedExists)

SpecDownload == Init /\ [][NextDownload]_vars

\* the chat endpoint with calls in flight, beside submissions and cancellations
NextChat ==
    \/ \E publishOk \in BOOLEAN : submit_audio_edit("trim", TRUE, publishOk)
    \/ llm_chat_begin
    \/ \E id \in RequestIds, code \in ChatCodes : llm_chat_end(id, code)
    \/ \E id \in EventIds : cancel_request(id)

SpecChat == Init /\ [][NextChat]_vars

\* parse_flow on every flow of the bounded set
InitParseFlow ==
    /\ InitGateway
    /\ user_message = ""
    /\ operations = <<>>
    /\ redis_enabled = FALSE
    /\ worker = [pc |-> "down", results_cache |-> {}]
    /\ flow \in FlowInputs
    /\ InitService

NextParseFlow == call_parse_flow

SpecParseFlow == InitParseFlow /\ [][NextParseFlow]_vars

\* process_operations on every list of the bounded set
InitPipeline ==
    /\ InitGateway
    /\ user_message = ""
    /\ operations = <<>>
    /\ flow = NoFlow
    /\ redis_enabled = FALSE
    /\ worker = [pc |-> "idle", results_cache |-> {}]
    /\ budget = MaxExternal
    /\ mcp_client = StartedClient
    /\ pipeline \in [operations : PipelinesOf(MaxOperations), outcome : {[called |-> FALSE]}]

NextPipeline == call_process_operations

SpecPipeline == InitPipeline /\ [][NextPipeline]_vars

\* the gateway's MQTT client from construction on: connects from several
\* callers, the listener loop ending, status events arriving
InitClient ==
    /\ InitGateway
    /\ user_message = ""
    /\ operations = <<>>
    /\ flow = NoFlow
    /\ redis_enabled = FALSE
    /\ worker = [pc |-> "down", results_cache |-> {}]
    /\ budget = MaxExternal
    /\ mcp_client = NewClient
    /\ pipeline = NoPipeline

NextClient ==
    \/ connect_begin
    \/ \E connectOk, subscribeOk \in BOOLEAN : connect_end(connectOk, subscribeOk)
    \/ \E task \in 1..MaxConnects : listen_loop_ends(task)
    \/ disconnect
    \/ llm_chat_begin
    \/ \E id \in RequestIds, code \in {200, 502} : llm_chat_end(id, code)
    \/ listen_status_updates
    \/ \E id \in EventIds, event \in ResultEvents : PublishStatus(id, event)

SpecClient == InitClient /\ [][NextClient]_vars

\* the gateway's listener fed with well-formed and malformed status messages
NextMalformed ==
    \/ submit_audio_edit("trim", TRUE, TRUE)
    \/ listen_status_updates
    \/ \E id \in EventIds, event \in ResultEvents : PublishStatus(id, event)
    \/ \E body \in MalformedBodies : PublishRaw(1, body)

SpecMalformed == Init /\ [][NextMalformed]_vars

\* flow files loaded into the orchestrator and enqueued
NextLoad ==
    \/ load_workflow_from_file("flow")
    \/ enqueue_from_file
    \/ \E workflow_name \in WorkflowNames \cup {"flow"} : enqueue_workflow(workflow_name)

SpecLoad == InitParseFlow /\ [][NextLoad]_vars

\* the orchestrator and its RQ worker beside the gateway's listener and the
\* audio worker
NextOrch ==
    \/ \E workflow_name \in WorkflowNames : enqueue_workflow(workflow_name)
    \/ \E j \in 1..(2 * MaxWorkflows), sent \in 0..2 : perform_job(j, sent)
    \/ listen_status_updates
    \/ handle_mqtt_messages
    \/ process_single_request
    \/ \E executorOk \in BOOLEAN : execute_audio_operation(executorOk)
    \/ publish_result
    \/ PublishJob(GhostId, "trim")

SpecOrch == InitFlow /\ [][NextOrch]_vars

\* the gateway, the worker and an Executor that always succeeds, under the
\* scheduling of the two event loops: a loop that has a message or a job runs
NextLive ==
    \/ submit_audio_edit("trim", TRUE, TRUE)
    \/ listen_status_updates
    \/ handle_mqtt_messages
    \/ process_single_request
    \/ execute_audio_operation(TRUE)
    \/ publish_result
    \/ \E id \in EventIds : PublishJob(id, "trim")

LiveSpec ==
    /\ InitFlow
    /\ [][NextLive]_vars
    /\ WF_vars(listen_status_updates)
    /\ WF_vars(handle_mqtt_messages)
    /\ WF_vars(process_single_request)
    /\ WF_vars(execute_audio_operation(TRUE))
    /\ WF_vars(publish_result)

\* the worker alone under the scheduling of its two loops, with jobs that
\* fail, publishes that fail and malformed messages
InitSurvive ==
    /\ InitGateway
    /\ user_message = ""
    /\ operations = <<>>
    /\ flow = NoFlow
    /\ redis_enabled = FALSE
    /\ worker = [pc |-> "idle", results_cache |-> {}]
    /\ budget = MaxJobs
    /\ mcp_client = StartedClient
    /\ pipeline = NoPipeline

WorkerStep ==
    \/ process_single_request
    \/ \E errorPublished \in BOOLEAN : publish_processing_raises(errorPublished)
    \/ \E executorOk \in BOOLEAN : execute_audio_operation(executorOk)
    \/ error_status_raises
    \/ publish_result
    \/ publish_result_raises

NextSurvive ==
    \/ WorkerStep
    \/ handle_mqtt_messages
    \/ \E operation \in {"trim", "frobnicate"} : PublishJob(GhostId, operation)
    \/ \E raw \in InvalidJson \cup NonObjectJson : PublishRawJob(GhostId, raw)

SpecSurvive ==
    /\ InitSurvive
    /\ [][NextSurvive]_vars
    /\ WF_vars(handle_mqtt_messages)
    /\ WF_vars(WorkerStep)

\* ------------------------------------------------------------------------
\* Properties
\* ------------------------------------------------------------------------
StatusOf(d, id) == d[id].status

\* the states of the state machine of the request status
SpecStatus == {"submitted", "processing"} \cup Terminal

\* the edges of the state machine of the request status
AllowedEdges ==
    {<<"submitted", "processing">>, <<"processing", "completed">>,
     <<"processing", "failed">>, <<"submitted", "cancelled">>,
     <<"processing", "cancelled">>}

\* a step in which the listener took a message off its feed
ListenerStep == statusFeed # <<>> /\ statusFeed' = Tail(statusFeed)

\* a step in which the worker began the job of request id
WorkerStarts(id) ==
    worker.pc = "idle" /\ worker'.pc = "execute" /\ worker'.request_id = id

\* C1: every change of a Request's status that starts in submitted or
\* processing follows an edge of the state machine (submitted->processing,
\* processing->completed, processing->failed, {submitted,processing}->cancelled).
C1_StatusFollowsEdges ==
    [][\A id \in DOMAIN db :
          (StatusOf(db, id) \in {"submitted", "processing"}
             /\ StatusOf(db', id) # StatusOf(db, id))
          => <<StatusOf(db, id), StatusOf(db', id)>> \in AllowedEdges]_vars

\* C2: once a Request's status is completed, failed or cancelled, no later
\* step changes it.
C2_TerminalIsFinal ==
    [][\A id \in DOMAIN db :
          StatusOf(db, id) \in Terminal => StatusOf(db', id) = StatusOf(db, id)]_vars

\* C3: the status of every stored Request is one of submitted, processing,
\* completed, failed, cancelled.
C3_StatusInEnum ==
    \A id \in DOMAIN db : StatusOf(db, id) \in SpecStatus

\* C4: cancel on a Request that is completed, failed or cancelled is rejected
\* (HTTP 400) and leaves the table, the uploaded files and the cache as they were.
C4_CancelTerminalRejected ==
    [][\A id \in EventIds :
          (id \in DOMAIN db /\ StatusOf(db, id) \in Terminal /\ cancel_request(id))
          => /\ response' = Reply("cancel", 400)
             /\ db' = db
             /\ files' = files
             /\ active_requests' = active_requests
             /\ redis_store' = redis_store]_vars

\* C4 witness: a cancel was rejected for a Request in a terminal status.
C4_Witness ==
    /\ response = Reply("cancel", 400)
    /\ \E id \in DOMAIN db : StatusOf(db, id) \in Terminal

\* C5: the worker does not start the job of a Request whose status is
\* cancelled when it dequeues the job (a Request cancelled while submitted
\* never starts).
C5_CancelledNeverStarts ==
    [][\A id \in DOMAIN db :
          StatusOf(db, id) = "cancelled" => ~WorkerStarts(id)]_vars

\* the value a finished update call wrote for key k, as the store holds it
Holds(u, k) ==
    LET id == updaters[u].id IN
    IF updaters[u].path = "durable"
    THEN id \in DOMAIN db /\ db[id][k] = AssignedValue(k, updaters[u].fields)
    ELSE /\ k \in DOMAIN get_request(id)
         /\ get_request(id)[k] = updaters[u].fields[k]

\* C6: two finished concurrent updates of the same Request id with disjoint
\* field sets, on the same update path, both took effect (the Request was in
\* the store when each update began).
C6_NoLostUpdate ==
    \A u, v \in Updaters :
        (/\ u # v
         /\ updaters[u].pc = "done" /\ updaters[v].pc = "done"
         /\ updaters[u].found /\ updaters[v].found
         /\ updaters[u].id = updaters[v].id
         /\ updaters[u].path = updaters[v].path
         /\ DOMAIN updaters[u].fields \cap DOMAIN updaters[v].fields = {})
        => /\ \A k \in DOMAIN updaters[u].fields : Holds(u, k)
           /\ \A k \in DOMAIN updaters[v].fields : Holds(v, k)

\* C7: an update for a request id that no store holds creates no record: the
\* memory table and Redis hold records only of ids that the durable table has.
C7_UnknownIdCreatesNothing ==
    /\ DOMAIN active_requests \subseteq DOMAIN db
    /\ DOMAIN redis_store \subseteq DOMAIN db
    /\ DOMAIN db \subseteq RequestIds

\* C8: the listener leaves status, progress and result of an existing Request
\* unchanged when the event does not carry that field.
C8_ListenerWritesPresentFieldsOnly ==
    [][ListenerStep =>
          LET payload == Head(statusFeed).payload
              req_id  == PayloadGet(payload, "request_id", NoRequestId)
          IN req_id \in DOMAIN db =>
                \A k \in {"status", "progress", "result"} :
                    k \notin DOMAIN payload => db'[req_id][k] = db[req_id][k]]_vars

\* C9: applying to the table the event the listener has just applied leaves
\* the table as it is after the first application.
C9_EventIdempotent ==
    [][ListenerStep => apply_status_message(db', Head(statusFeed)) = db']_vars

\* C9 witness: the listener has applied an event that carried progress and
\* one that carried a status to a stored Request.
C9_Witness ==
    \E id \in DOMAIN db :
        db[id].progress # None /\ StatusOf(db, id) \notin {"submitted", "cancelled"}

\* C10: every Request whose job the gateway published on the submission
\* channel eventually has status completed.
C10_SubmittedEventuallyCompleted ==
    \A id \in RequestIds :
        (id \in published) ~> (id \in DOMAIN db /\ StatusOf(db, id) = "completed")

\* C11: every stored Request whose status is completed carries a result (the
\* completed event of the worker carries it and the listener stores it).
C11_CompletedHasResult ==
    \A id \in DOMAIN db :
        StatusOf(db, id) = "completed" => db[id].result # None

\* a finished update call of u whose key k no other call on the same id names
SoleWriter(u, k) ==
    \A v \in Updaters \ {u} :
        (updaters[v] # Idle /\ updaters[v].id = updaters[u].id)
        => k \notin DOMAIN updaters[v].fields

\* C12: a write made through either update path to a Request of the durable
\* table is what get_status reads afterwards, a written status is the status
\* list_requests shows, and a Request written completed is not refused by
\* download as not completed.
C12_WritesVisibleToReads ==
    \A u \in Updaters :
        (/\ updaters[u].pc = "done"
         /\ updaters[u].found
         /\ updaters[u].id \in DOMAIN db)
        => \A k \in DOMAIN updaters[u].fields :
              SoleWriter(u, k) =>
                 LET id    == updaters[u].id
                     value == updaters[u].fields[k]
                 IN /\ get_processing_status(db, id)[k] = value
                    /\ k = "status" =>
                          /\ \E i \in DOMAIN list_requests(db, None, None, 100) :
                                list_requests(db, None, None, 100)[i].request_id = id
                                /\ list_requests(db, None, None, 100)[i].status = value
                          /\ value = "completed" =>
                                download_processed_audio(db, id, TRUE).code = 200

\* C13: every Request that a submission stored with its uploaded file and that
\* is still submitted has a job that was published; a submission whose
\* publish failed leaves no such Request.
C13_SubmittedHasPublishedJob ==
    \A id \in DOMAIN db :
        (db[id].file_path # None /\ StatusOf(db, id) = "submitted")
        => id \in published

\* the operation names of the submissions the model makes that the Catalog lacks
UnknownOperations == {"trim", "frobnicate"} \ get_supported_operations

\* C14: a submission on /api/audio/edit or /api/chat/audio whose operation
\* name is not in the Catalog is answered 4xx, and it creates no Request,
\* stores no file and publishes no job.
C14_UnknownOperationRejected ==
    [][\A operation \in UnknownOperations, publishOk \in BOOLEAN :
          (\/ submit_audio_edit(operation, TRUE, publishOk)
           \/ chat_audio([raises |-> FALSE, success |-> TRUE,
                          data |-> [operation |-> operation]], publishOk))
          => /\ response'.code \in 400..499
             /\ db' = db
             /\ files' = files
             /\ published' = published
             /\ statusFeed' = statusFeed /\ workerFeed' = workerFeed]_vars

\* candidate i of the input stands before candidate j in the planned chain:
\* names of the order before other names, names of the order by their place
\* in it, and the input's order otherwise
Listed(op) == \E k \in DOMAIN operation_order : operation_order[k] = op.operation
Rank(op) == CHOOSE k \in DOMAIN operation_order : operation_order[k] = op.operation
Before(ops, i, j) ==
    IF Listed(ops[i]) /\ Listed(ops[j])
    THEN Rank(ops[i]) < Rank(ops[j]) \/ (Rank(ops[i]) = Rank(ops[j]) /\ i < j)
    ELSE IF Listed(ops[i]) = Listed(ops[j]) THEN i < j ELSE Listed(ops[i])

\* C15: the chain generate_operation_chain returns holds every candidate of
\* the input once: those whose name is in the precedence list first, in the
\* order of that list with equal names in input order, then those with other
\* names in their input order.
C15_ChainIsStablePartition ==
    operation_chain.called =>
        /\ Len(operation_chain.result) = Len(operations)
        /\ \A i, j \in DOMAIN operations :
              Before(operations, i, j) =>
                 \E m, n \in DOMAIN operation_chain.result :
                    /\ m < n
                    /\ operation_chain.result[m] = operations[i]
                    /\ operation_chain.result[n] = operations[j]
                    /\ m = Cardinality({h \in DOMAIN operations : Before(operations, h, i)}) + 1
                    /\ n = Cardinality({h \in DOMAIN operations : Before(operations, h, j)}) + 1

\* the text the Resolver works on, and what occurs in it
FoldedText == strip(lower(user_message))
NameOccurs(k) == Contains(FoldedText, AgentCatalog[k].operation)
AliasOccurs(k) ==
    \E a \in DOMAIN AgentCatalog[k].aliases :
        Contains(FoldedText, AgentCatalog[k].aliases[a])
\* the places of the returned list that hold a candidate for catalog entry k
CandidatesOf(k) ==
    {i \in DOMAIN parsed.result.value.operations :
        parsed.result.value.operations[i].operation = AgentCatalog[k].operation}
ResolverReturned == parsed.called /\ ~parsed.result.raised

\* C16: a result of parse_natural_language holds, for each operation of the
\* catalog, at most one candidate: one of confidence 1.0 exactly when the
\* canonical name occurs in the lower-cased, stripped text, else one of
\* confidence 0.9 exactly when one of the aliases occurs, else none.
C16_OneCandidatePerOperation ==
    ResolverReturned =>
        \A k \in DOMAIN AgentCatalog :
           /\ Cardinality(CandidatesOf(k)) <= 1
           /\ (\E i \in CandidatesOf(k) :
                  parsed.result.value.operations[i].confidence = Float(1, 1))
              <=> NameOccurs(k)
           /\ (\E i \in CandidatesOf(k) :
                  parsed.result.value.operations[i].confidence = Float(9, 10))
              <=> (~NameOccurs(k) /\ AliasOccurs(k))
           /\ (~NameOccurs(k) /\ ~AliasOccurs(k)) => CandidatesOf(k) = {}

\* a text in which the name of an operation and one of its own aliases occur
\* was resolved, and the operation has its one candidate
C16_Witness ==
    /\ ResolverReturned
    /\ \E k \in DOMAIN AgentCatalog :
          NameOccurs(k) /\ AliasOccurs(k) /\ Cardinality(CandidatesOf(k)) = 1
    /\ \E k \in DOMAIN AgentCatalog : ~NameOccurs(k) /\ ~AliasOccurs(k)

\* the sum of the confidences of the candidates, in tenths
RECURSIVE Tenths(_)
Tenths(ops) ==
    IF ops = <<>> THEN 0
    ELSE (ops[1].confidence.num * 10) \div ops[1].confidence.den + Tenths(Tail(ops))

\* C17: the candidates of a result are in descending order of confidence,
\* the overall confidence is the arithmetic mean of theirs, and it is 0 with
\* an empty list when the text matches no operation.
C17_SortedAndMean ==
    ResolverReturned =>
        LET ops == parsed.result.value.operations
            overall == parsed.result.value.confidence
        IN /\ \A i, j \in DOMAIN ops :
                 i < j => ~FloatLess(ops[i].confidence, ops[j].confidence)
           /\ ops # <<>> => overall.num * 10 * Len(ops) = Tenths(ops) * overall.den
           /\ (\A k \in DOMAIN AgentCatalog : ~NameOccurs(k) /\ ~AliasOccurs(k))
              <=> ops = <<>>
           /\ ops = <<>> => overall = Float(0, 1)

\* a result whose candidates the catalog loop found in ascending order of
\* confidence (fade_in by its alias, then fade_out by its name)
C17_Witness ==
    /\ ResolverReturned
    /\ Len(parsed.result.value.operations) = 2
    /\ parsed.result.value.operations[1].operation = "fade_out"
    /\ parsed.result.value.operations[1].confidence = Float(1, 1)
    /\ parsed.result.value.operations[2].operation = "fade_in"
    /\ parsed.result.value.operations[2].confidence = Float(9, 10)
    /\ parsed.result.value.confidence = Float(19, 20)

\* C18: a call of parse_natural_language returns a result for every text; it
\* does not raise.
C18_ResolverNeverRaises == parsed.called => ~parsed.result.raised

\* the decibel quantity 'X dB' of the request text, if it has one
DecibelQuantity == re_search(DbUnits, TRUE, TRUE, user_message)

\* C19: for a text that names normalize the result holds exactly one
\* normalize candidate, of confidence 1.0, whose target_db is the X of the
\* text's 'X dB', and -20.0 only when the text has no decibel quantity.
C19_NormalizeTargetDb ==
    (ResolverReturned /\ Contains(FoldedText, "normalize")) =>
        LET ops  == parsed.result.value.operations
            hits == {i \in DOMAIN ops : ops[i].operation = "normalize"}
        IN /\ Cardinality(hits) = 1
           /\ \A i \in hits :
                 /\ ops[i].confidence = Float(1, 1)
                 /\ ops[i].parameters.target_db =
                       IF DecibelQuantity.found
                       THEN float(DecibelQuantity.group) ELSE DefaultDb

\* C20: no stored record of the process-natural endpoint has an empty chain,
\* and a request whose text the Resolver finds no candidate in is answered
\* with a 4xx code.
C20_EmptyResolutionRejected ==
    /\ \A id \in DOMAIN agent_requests :
          agent_requests[id].result.operations # <<>>
    /\ (/\ response.op = "process_natural"
        /\ \A k \in DOMAIN AgentCatalog : ~NameOccurs(k) /\ ~AliasOccurs(k))
       => response.code \in 400..499

\* the requests the process-natural endpoint has answered as processed: one
\* assistant entry of the conversation per such request
ProcessedCalls ==
    {i \in DOMAIN conversation_history : conversation_history[i].role = "assistant"}

\* C21: every submission gets a request id of its own: the records stored
\* by the process-natural endpoint are as many as the requests it processed
\* (none overwrote another), and the gateway's table holds one row per id
\* it handed out.
C21_DistinctRequestIds ==
    /\ Cardinality(DOMAIN agent_requests) = Cardinality(ProcessedCalls)
    /\ \A id \in DOMAIN db : id \in RequestIds => id < nextId

\* the jobs of the queue that belong to workflow submission w
JobsOf(w) == {i \in DOMAIN rq_jobs : rq_jobs[i].payload.workflow_id = w}

\* C22: every dispatched workflow submission has exactly one job on the work
\* queue, however many operations its chain has.
C22_OneJobPerSubmission ==
    \A w \in WorkflowIds : Cardinality(JobsOf(w)) = 1

\* C23: a job is attempted at most 1 + its retry limit times; a job none of
\* whose attempts dispatched it is not finished (successful), and once its
\* attempts are used up it is failed.
C23_FailingJobEndsFailed ==
    \A i \in DOMAIN rq_jobs :
        /\ rq_jobs[i].attempts <= 1 + rq_jobs[i].retry_max
        /\ (rq_jobs[i].attempts > 0 /\ rq_jobs[i].unsent = rq_jobs[i].attempts)
           => /\ rq_jobs[i].status # "finished"
              /\ rq_jobs[i].attempts = 1 + rq_jobs[i].retry_max
                 => rq_jobs[i].status = "failed"

\* C26: every message on a status topic audio/status/<id> that reaches the
\* Status Listener carries request_id equal to <id> and a status field.
C26_StatusMessagesAttributable ==
    \A i \in DOMAIN statusFeed :
        StartsWith(statusFeed[i].topic, "status") =>
            /\ "status" \in DOMAIN statusFeed[i].payload
            /\ "request_id" \in DOMAIN statusFeed[i].payload
            /\ \A id \in 1..(GhostId + 2 * MaxWorkflows) :
                  statusFeed[i].topic = StatusTopic(id)
                  => statusFeed[i].payload.request_id = id

\* C24: a Request whose status is submitted or processing has no result (the
\* table has no column for an error; the result column holds the error
\* detail of a failed chat).
C24_ResultOnlyWhenTerminal ==
    \A id \in DOMAIN db :
        StatusOf(db, id) \in {"submitted", "processing"} => db[id].result = None

\* the error message a Request carries: the table has no error column, the
\* result column holds the error detail llm_chat stores
ErrorOf(row) == IF row.result = JsonText.llmError THEN row.result ELSE None

\* the listener takes a failure report of the worker for a stored Request
WorkerFailureApplied(id) ==
    /\ ListenerStep
    /\ Head(statusFeed).topic = StatusTopic(id)
    /\ PayloadGet(Head(statusFeed).payload, "request_id", NoRequestId) = id
    /\ PayloadGet(Head(statusFeed).payload, "status", None) = "error"

\* C25: every Request whose status is failed carries an error message, and
\* when the listener applies a failure the worker reported for a Request,
\* the Request is failed and carries the reported message.
C25_FailedCarriesError ==
    [][\A id \in DOMAIN db' :
          /\ StatusOf(db', id) = "failed" => ErrorOf(db'[id]) # None
          /\ (id \in DOMAIN db /\ WorkerFailureApplied(id))
             => (StatusOf(db', id) = "failed" /\ ErrorOf(db'[id]) # None)]_vars

\* C27: download answers 200 only for a stored Request that is completed and
\* has a processed artifact, 404 for an id the table lacks, 400 for a
\* Request in any other status, 404 when no artifact exists, and it leaves
\* the table as it was.
C27_DownloadOutcomes ==
    [][\A id \in EventIds, processedExists \in BOOLEAN :
          call_download_processed_audio(id, processedExists) =>
             /\ db' = db
             /\ response'.code =
                   IF id \notin DOMAIN db THEN 404
                   ELSE IF StatusOf(db, id) # "completed" THEN 400
                   ELSE IF db[id].file_path = None \/ ~processedExists THEN 404
                   ELSE 200]_vars

\* C28: a call of llm_chat creates exactly one Request, and when it responds
\* that Request is completed with the parsed result stored (answer 200) or
\* failed with the error detail stored (any other answer), never submitted.
C28_ChatEndsTerminal ==
    [][/\ llm_chat_begin =>
             /\ Cardinality(DOMAIN db' \ DOMAIN db) = 1
             /\ \A id \in DOMAIN db : db'[id] = db[id]
       /\ \A id \in RequestIds, code \in ChatCodes :
             llm_chat_end(id, code) =>
                /\ DOMAIN db' = DOMAIN db
                /\ StatusOf(db', id) = (IF code = 200 THEN "completed" ELSE "failed")
                /\ db'[id].result = (IF code = 200 THEN JsonText.llmData
                                     ELSE JsonText.llmError)
       /\ \A id \in DOMAIN db' :
             (db'[id].payload = JsonText.chatBody /\ id \notin llmPending')
             => StatusOf(db', id) # "submitted"]_vars

\* one chat call was answered with the parsed result and another, answered
\* last, with a failure
C28_Witness ==
    /\ response.op = "llm_chat" /\ response.code # 200
    /\ llmPending = {}
    /\ \E i, j \in DOMAIN db :
          /\ StatusOf(db, i) = "completed" /\ db[i].result = JsonText.llmData
          /\ StatusOf(db, j) = "failed" /\ db[j].result = JsonText.llmError

\* the operations a step type is checked against: those passed to
\* parse_flow, else those of the AudioAgent catalog
SupportedForFlow ==
    IF flow.supported_ops.known THEN flow.supported_ops.names ELSE AgentOperations

\* C29: parse_flow raises ValueError, and so returns no action, whenever a
\* step of the flow has no type or a type that is not a supported operation.
C29_ParseFlowRejects ==
    (/\ actions.called
     /\ \E i \in DOMAIN flow.steps :
           \/ "type" \notin DOMAIN flow.steps[i]
           \/ flow.steps[i].type \notin SupportedForFlow)
    => (actions.result.raised /\ actions.result.error = "ValueError")

\* C30: for one job the worker publishes at most one terminal status: once
\* "completed" went out for the job's request id (the worker stands before
\* publish_result), the worker's next step publishes no "error" status for
\* that id, whatever happens to the publish of the result.
C30_OneTerminalStatusPerJob ==
    [][(/\ worker.pc = "publish_result"
        /\ worker'.pc = "idle"
        /\ Len(statusFeed') = Len(statusFeed) + 1)
       => ~(/\ statusFeed'[Len(statusFeed')].topic = StatusTopic(worker.request_id)
            /\ PayloadGet(statusFeed'[Len(statusFeed')].payload, "status", None) = "error")]_vars

\* C31: cancel's check of the status and its write of "cancelled" are one
\* step for the listener and the other writers: no step takes a Request whose
\* status is completed or failed (a terminal event was applied) to cancelled.
C31_CancelKeepsTerminal ==
    [][\A id \in DOMAIN db :
          StatusOf(db, id) \in {"completed", "failed"}
          => StatusOf(db', id) # "cancelled"]_vars

\* C31 witness: a terminal event was applied to a Request and the cancel that
\* came after it was refused, the terminal status still in place.
C31_Witness ==
    /\ response = Reply("cancel", 400)
    /\ statusFeed = <<>>
    /\ budget < MaxExternal
    /\ \E id \in DOMAIN db : /\ StatusOf(db, id) = "completed"
                             /\ db[id].payload = dump("editJob")

\* the job was published for processing by one of its executions
Dispatched(i) == rq_jobs[i].attempts > rq_jobs[i].unsent

\* C32: the steps of one workflow are dispatched in chain order: a step is
\* dispatched only when every earlier step of its workflow has been.
C32_StepsDispatchedInOrder ==
    \A i, j \in DOMAIN rq_jobs :
        (/\ rq_jobs[i].payload.workflow_id = rq_jobs[j].payload.workflow_id
         /\ i < j
         /\ Dispatched(j))
        => Dispatched(i)

\* C33: a flow whose steps parse_flow accepts is enqueued successfully by
\* enqueue_from_file, one job per step, each with the step's own ttl and
\* retries where the step gives them and with ttl 3600 and retries 0 where
\* it does not.
C33_FlowDefaults ==
    [][(/\ enqueue_from_file
        /\ flow.steps # <<>>
        /\ ~parse_flow(flow.steps, NoOps, flow.discovered).raised)
       => /\ response' = Reply("enqueue_workflow", 200)
          /\ Len(rq_jobs') = Len(rq_jobs) + Len(flow.steps)
          /\ \A i \in DOMAIN flow.steps :
                /\ rq_jobs'[Len(rq_jobs) + i].ttl = PayloadGet(flow.steps[i], "ttl", 3600)
                /\ rq_jobs'[Len(rq_jobs) + i].retry_max
                      = PayloadGet(flow.steps[i], "retries", 0)]_vars

\* the first operation of the list that is unsupported or fails, or one past
\* the end of the list
FirstFailing(ops) ==
    IF \E i \in DOMAIN ops : ops[i].name \notin PipelineNames \/ OperationRaises(ops[i])
    THEN CHOOSE i \in DOMAIN ops :
            /\ ops[i].name \notin PipelineNames \/ OperationRaises(ops[i])
            /\ \A k \in 1..(i - 1) :
                  ops[k].name \in PipelineNames /\ ~OperationRaises(ops[k])
    ELSE Len(ops) + 1

C38_OneListenerTask ==
    Cardinality(mcp_client.tasks) <= 1

\* C39: whenever MCPClient.connected is true, a listener task is running.
C39_ConnectedHasListener ==
    mcp_client.connected => mcp_client.tasks # {}

\* C35: an applied status event for Request X changes on X only the fields
\* the event carries: payload (the chain), client_id and file_path stay, a
\* field of status, progress, result the event lacks stays, and every other
\* Request stays as it is.
C35_UpdateFrame ==
    [][ListenerStep =>
          LET payload == Head(statusFeed).payload
              req_id  == PayloadGet(payload, "request_id", NoRequestId)
          IN /\ DOMAIN db' = DOMAIN db
             /\ \A id \in DOMAIN db :
                   IF id = req_id
                   THEN /\ \A k \in {"payload", "client_id", "file_path"} :
                              db'[id][k] = db[id][k]
                        /\ \A k \in {"status", "progress", "result"} \ DOMAIN payload :
                              db'[id][k] = db[id][k]
                   ELSE db'[id] = db[id]]_vars

\* C36: a status message whose body is no JSON, is JSON but no object, or
\* has no request_id is discarded: the listener takes it off the feed, no
\* Request changes, and the listener task runs on with the rest of the feed.
C36_MalformedDiscarded ==
    [][(ListenerStep /\ Malformed(Head(statusFeed)))
       => /\ db' = db
          /\ mcp_client'.tasks = mcp_client.tasks
          /\ mcp_client'.tasks # {}]_vars

\* C36 witness: a message that made the listener's inner try raise was
\* discarded and a well-formed event was applied, the listener still running.
C36_Witness ==
    /\ mcp_client.errors > 0
    /\ mcp_client.tasks # {}
    /\ statusFeed = <<>>
    /\ \E id \in DOMAIN db : /\ StatusOf(db, id) = "completed"
                             /\ db[id].result = dump("resA")

\* how many times the list holds the candidate
Occurrences(op, list) == Cardinality({i \in DOMAIN list : list[i] = op})

\* C37: generate_operation_chain returns a permutation of its input: the
\* same length, and every candidate as many times as the input holds it.
C37_ChainIsPermutation ==
    operation_chain.called =>
        /\ Len(operation_chain.result) = Len(operations)
        /\ \A op \in Candidates :
              Occurrences(op, operation_chain.result) = Occurrences(op, operations)

\* C40: no failure while a queued request is processed stops the worker's
\* loops: whatever is received or queued is eventually taken, and the worker
\* comes back to wait for the next request.
C40_WorkerLoopsSurvive ==
    (workerFeed # <<>> \/ processing_queue # <<>> \/ worker.pc # "idle")
        ~> (workerFeed = <<>> /\ processing_queue = <<>> /\ worker.pc = "idle")

\* C40 witness: a request failed (its "error" status went out) and a request
\* processed after it was completed, the worker waiting for the next one.
C40_Witness ==
    /\ processing_queue = <<>>
    /\ worker.pc = "idle"
    /\ \E i, j \in DOMAIN statusFeed :
          /\ i < j
          /\ statusFeed[i].payload.status = "error"
          /\ statusFeed[j].payload.status = "completed"

====
